---------------------------- MODULE Spec2Model ----------------------------
(***************************************************************************)
(* A model of beets' MusicBrainz metadata mapper (beets/autotag/mb.py) and *)
(* of the cover-art plugin (beetsplug/embedart.py).                        *)
(*                                                                         *)
(* Python values are modelled as follows.                                  *)
(*   - A dict is a TLA+ function (a record); "k in d" is k \in DOMAIN d.   *)
(*   - A str that the code changes character by character (search          *)
(*     criteria, dates, alias types, counts) is a sequence of              *)
(*     one-character strings; a str that is only copied, joined or         *)
(*     searched (names, paths, identifiers) is a TLA+ string.              *)
(*   - An Optional value is a sequence of length at most one: None is <<>> *)
(*     and a value v is <<v>>, except where the value is itself a dict,    *)
(*     where None is <<>> and the dict stands for itself.                  *)
(*   - A call that raises returns [raise |-> <exception>].                 *)
(*   - A key spelled with hyphens in the service's data ('sort-name') is   *)
(*     spelled with underscores (sort_name).                               *)
(*   - A function is an operator of its arguments and of what it reads;    *)
(*     its steps are operators of the value they go on from, so that each  *)
(*     intermediate value is named once.                                   *)
(***************************************************************************)
EXTENDS Integers, Sequences, FiniteSets, TLC

VARIABLES
    config,     \* the beets configuration the functions read
    fn,         \* the function under application
    arg,        \* its arguments
    ret,        \* its result, Pending until it has been applied
    release,    \* the raw release dict album_info is given (it is the caller's object)
    service,    \* the recordings the remote service holds, by release id
    info,       \* what album_info returned or raised, Pending until it has
    browses,    \* the browse_recordings calls issued so far
    again,      \* what a second album_info on the same release dict returned or raised
    musicbrainz,\* how the remote service answers searches and lookups by id
    requests,   \* the search and lookup calls issued so far
    pc,         \* where the call or the generator is: call, suspended, done, raised
    todo,       \* the search results the generator has not yet gone through
    yielded,    \* what the generator has yielded so far
    files,      \* the bytes of the files on disk, by path
    tags,       \* the art embedded in each item's file: None or <<data, kind>>
    saves,      \* the items whose file has been saved, save by save
    log,        \* the records logged so far
    lib,        \* the library: its albums and their items
    options,    \* the plugin's options
    cmd,        \* the last operation of the plugin that ran, None before the first
    steps       \* how many operations of the plugin have run

pureVars == <<fn, arg, ret>>
albumVars == <<release, service, info, browses, again>>
lookupVars == <<musicbrainz, requests, pc, todo, yielded>>
artVars == <<files, tags, saves, log, lib, options, cmd, steps>>
vars == <<config, fn, arg, ret, release, service, info, browses, again,
          musicbrainz, requests, pc, todo, yielded,
          files, tags, saves, log, lib, options, cmd, steps>>

None == <<>>
Some(v) == <<v>>
Pending == [pending |-> TRUE]

\* the variables of the parts a specification does not exercise
IdlePure == fn = "none" /\ arg = None /\ ret = Pending
IdleAlbum ==
    release = None /\ service = None /\ info = Pending /\ browses = <<>> /\ again = Pending
IdleLookup ==
    musicbrainz = None /\ requests = <<>> /\ pc = "idle" /\ todo = <<>> /\ yielded = <<>>
IdleArt ==
    /\ files = <<>> /\ tags = <<>> /\ saves = <<>> /\ log = <<>>
    /\ lib = <<>> /\ options = <<>> /\ cmd = None /\ steps = 0

(***************************************************************************)
(* str helpers                                                             *)
(***************************************************************************)
Range(s) == {s[i] : i \in DOMAIN s}

Min(S) == CHOOSE x \in S : \A y \in S : x <= y

InSeq(x, s) == \E i \in DOMAIN s : s[i] = x

UpperToLower == [A |-> "a", B |-> "b", S |-> "s", H |-> "h", N |-> "n", X |-> "x"]

\* str.lower, character by character
lower(s) ==
    [i \in 1..Len(s) |-> IF s[i] \in DOMAIN UpperToLower THEN UpperToLower[s[i]] ELSE s[i]]

IsSpace(c) == c = " "

\* str.strip: drop leading and trailing whitespace
strip(s) ==
    LET keep == {i \in 1..Len(s) : ~IsSpace(s[i])}
    IN  IF keep = {} THEN <<>>
        ELSE LET lo == CHOOSE i \in keep : \A j \in keep : i <= j
                 hi == CHOOSE i \in keep : \A j \in keep : j <= i
             IN  SubSeq(s, lo, hi)

\* str.replace(c, '')
remove(s, c) == SelectSeq(s, LAMBDA x : x # c)

RECURSIVE split(_, _)
\* str.split(sep) for a one-character separator: always at least one part
split(s, sep) ==
    IF \A i \in DOMAIN s : s[i] # sep THEN <<s>>
    ELSE LET k == CHOOSE i \in DOMAIN s : s[i] = sep /\ \A j \in 1..(i - 1) : s[j] # sep
         IN  <<SubSeq(s, 1, k - 1)>> \o split(SubSeq(s, k + 1, Len(s)), sep)

Digits == <<"0", "1", "2", "3", "4", "5", "6", "7", "8", "9">>

IsDigit(c) == InSeq(c, Digits)

DigitValue(c) == (CHOOSE i \in DOMAIN Digits : Digits[i] = c) - 1

RECURSIVE DigitsValue(_)
DigitsValue(s) ==
    IF s = <<>> THEN 0
    ELSE 10 * DigitsValue(SubSeq(s, 1, Len(s) - 1)) + DigitValue(s[Len(s)])

\* int(s): surrounding whitespace is ignored, an optional sign, then digits only;
\* anything else is a ValueError
int(s) ==
    LET t == strip(s)
        signed == t # <<>> /\ t[1] \in {"+", "-"}
        d == IF signed THEN Tail(t) ELSE t
    IN  IF d = <<>> \/ \E i \in DOMAIN d : ~IsDigit(d[i])
        THEN [raise |-> "ValueError"]
        ELSE [value |-> IF signed /\ t[1] = "-" THEN 0 - DigitsValue(d) ELSE DigitsValue(d)]

RECURSIVE join(_, _)
\* sep.join(parts) for parts that are TLA+ strings
join(sep, parts) ==
    IF parts = <<>> THEN ""
    ELSE IF Len(parts) = 1 THEN parts[1]
    ELSE parts[1] \o sep \o join(sep, Tail(parts))

\* dict.get(k): an Optional
get(d, k) == IF k \in DOMAIN d THEN Some(d[k]) ELSE None

\* dict.get(k, default)
getdefault(d, k, default) == IF k \in DOMAIN d THEN d[k] ELSE default

\* d[k] = v
setitem(d, k, v) == [x \in DOMAIN d \cup {k} |-> IF x = k THEN v ELSE d[x]]

(***************************************************************************)
(* _preferred_alias                                                        *)
(***************************************************************************)
RECURSIVE AliasForLocales(_, _, _)
\* the loop over the configured locales: the first locale with a match decides
AliasForLocales(locales, aliases, ignored_alias_types) ==
    IF locales = <<>> THEN None
    ELSE LET locale == Head(locales)
             matches == SelectSeq(aliases, LAMBDA a :
                            /\ a.locale = locale
                            /\ "primary" \in DOMAIN a
                            /\ ~InSeq(lower(getdefault(a, "type", <<>>)), ignored_alias_types))
         IN  IF matches = <<>>
             THEN AliasForLocales(Tail(locales), aliases, ignored_alias_types)
             ELSE matches[1]

\* a variant: the alias list's order, not the configuration's, decides the locale
_preferred_alias_list_order(aliases, cfg) ==
    LET ignored_alias_types ==
            [i \in DOMAIN cfg.ignored_alias_types |-> lower(cfg.ignored_alias_types[i])]
        matches == SelectSeq(aliases, LAMBDA a :
                       /\ "locale" \in DOMAIN a
                       /\ InSeq(a.locale, cfg.languages)
                       /\ "primary" \in DOMAIN a
                       /\ ~InSeq(lower(getdefault(a, "type", <<>>)), ignored_alias_types))
    IN  IF matches = <<>> THEN None ELSE matches[1]

_preferred_alias(aliases, cfg) ==
    IF aliases = <<>> THEN None
    ELSE LET located == SelectSeq(aliases, LAMBDA a : "locale" \in DOMAIN a)
             ignored_alias_types ==
                 [i \in DOMAIN cfg.ignored_alias_types |-> lower(cfg.ignored_alias_types[i])]
         IN  AliasForLocales(cfg.languages, located, ignored_alias_types)

(***************************************************************************)
(* Inputs of _preferred_alias                                              *)
(***************************************************************************)
MaxAliases == 3

Locales == {"en", "fr"}

AliasNames == <<"alias1", "alias2", "alias3", "alias4", "alias5">>

\* an alias type as the service spells it, and one the configuration ignores
AliasTypes == {<<"S", "h">>}

\* the dict d cut down to the keys in keys
Restrict(d, keys) == [k \in keys |-> d[k]]

\* every dict that holds the keys in required and any of the other keys of a
\* dict drawn from full
WithOptionalKeys(full, required) ==
    {Restrict(d, required \cup S) : d \in full, S \in SUBSET (DOMAIN (CHOOSE x \in full : TRUE))}

AliasShapes ==
    WithOptionalKeys([alias : {"?"}, locale : Locales, primary : {"primary"}, type : AliasTypes],
                     {"alias"})

\* alias lists of a given length; the i-th alias is named AliasNames[i]
AliasListsOf(n, shapes) ==
    {[i \in 1..n |-> setitem(f[i], "alias", AliasNames[i])] : f \in [1..n -> shapes]}

\* alias lists of at most max aliases
AliasLists(max) == UNION {AliasListsOf(n, AliasShapes) : n \in 0..max}

LanguageConfigs == {<<>>, <<"en">>, <<"en", "fr">>, <<"fr", "en">>}

IgnoredTypeConfigs == {<<>>, <<<<"s", "H">>>>}

DefaultConfig ==
    [languages |-> <<>>, ignored_alias_types |-> <<>>, countries |-> <<>>,
     genres |-> FALSE, ignore_data_tracks |-> TRUE, ignore_video_tracks |-> TRUE,
     ignored_media |-> <<>>, va_name |-> "Various Artists", searchlimit |-> 5]

AliasConfigs ==
    {[DefaultConfig EXCEPT !.languages = l, !.ignored_alias_types = t] :
        l \in LanguageConfigs, t \in IgnoredTypeConfigs}

InitAlias ==
    /\ fn = "_preferred_alias"
    /\ arg \in {[aliases |-> l] : l \in AliasLists(MaxAliases)}
    /\ config \in AliasConfigs
    /\ ret = Pending
    /\ IdleAlbum /\ IdleLookup /\ IdleArt

Apply_preferred_alias ==
    /\ fn = "_preferred_alias"
    /\ ret = Pending
    /\ ret' = [value |-> _preferred_alias(arg.aliases, config)]
    /\ UNCHANGED <<config, fn, arg>>
    /\ UNCHANGED <<albumVars, lookupVars, artVars>>

SpecAlias == InitAlias /\ [][Apply_preferred_alias]_vars

\* C5: _preferred_alias returns the first alias, in list order, that carries the
\* locale L, is marked primary and whose type is not ignored (case-insensitively),
\* where L is the earliest configured locale for which such an alias exists; it
\* returns None exactly when no configured locale has such an alias.
C5_PreferredAlias ==
    (fn = "_preferred_alias" /\ ret # Pending) =>
        LET al == arg.aliases
            langs == config.languages
            Ignored(a) == /\ "type" \in DOMAIN a
                          /\ \E i \in DOMAIN config.ignored_alias_types :
                                 lower(config.ignored_alias_types[i]) = lower(a.type)
            Elig(L) == {i \in DOMAIN al : /\ "locale" \in DOMAIN al[i] /\ al[i].locale = L
                                           /\ "primary" \in DOMAIN al[i]
                                           /\ ~Ignored(al[i])}
            Has == {k \in DOMAIN langs : Elig(langs[k]) # {}}
        IN  IF Has # {}
            THEN LET k == Min(Has)
                     i == Min(Elig(langs[k]))
                 IN  ret.value = al[i]
            ELSE ret.value = None

\* a French alias precedes an English one in the list, both eligible, the
\* configuration prefers English, and the English alias was returned
C5_Witness ==
    /\ fn = "_preferred_alias" /\ ret # Pending
    /\ config.languages = <<"en", "fr">>
    /\ Len(arg.aliases) = 3
    /\ arg.aliases[1] = [alias |-> "alias1", locale |-> "fr", primary |-> "primary"]
    /\ arg.aliases[2] = [alias |-> "alias2", locale |-> "en"]
    /\ arg.aliases[3] = [alias |-> "alias3", locale |-> "en", primary |-> "primary"]
    /\ ret.value = arg.aliases[3]

(***************************************************************************)
(* _flatten_artist_credit                                                  *)
(***************************************************************************)
\* the three parts one element of the credit contributes
CreditParts(el, cfg) ==
    IF "phrase" \in DOMAIN el
    THEN [name |-> el.phrase, sort |-> el.phrase, credit |-> el.phrase]
    ELSE LET alias == _preferred_alias(getdefault(el.artist, "alias_list", <<>>), cfg)
             cur_artist_name == IF alias # None THEN alias.alias ELSE el.artist.name
         IN  IF alias # None /\ "sort_name" \notin DOMAIN alias
             THEN [raise |-> "KeyError"]
             ELSE [name |-> cur_artist_name,
                   sort |-> IF alias # None THEN alias.sort_name
                            ELSE IF "sort_name" \in DOMAIN el.artist
                                 THEN el.artist.sort_name
                                 ELSE cur_artist_name,
                   credit |-> IF "name" \in DOMAIN el THEN el.name ELSE cur_artist_name]

_flatten_artist_credit(credit, cfg) ==
    LET parts == [i \in DOMAIN credit |-> CreditParts(credit[i], cfg)]
    IN  IF \E i \in DOMAIN parts : "raise" \in DOMAIN parts[i]
        THEN [raise |-> "KeyError"]
        ELSE [value |-> <<join("", [i \in DOMAIN parts |-> parts[i].name]),
                          join("", [i \in DOMAIN parts |-> parts[i].sort]),
                          join("", [i \in DOMAIN parts |-> parts[i].credit])>>]

MaxCredit == 3

ArtistNames == <<"A", "B", "C", "D", "E">>

\* the alias lists an artist of a credit may carry: one preferred alias with a
\* sort-name, one without, one that is not primary
CreditAliasLists ==
    {<<[alias |-> "Alias", locale |-> "en", primary |-> "primary", sort_name |-> "Alias, The"]>>,
     <<[alias |-> "Alias", locale |-> "en", primary |-> "primary"]>>,
     <<[alias |-> "Alias", locale |-> "en", sort_name |-> "Alias, The"]>>}

\* the i-th element of a credit: a join phrase or an artist appearance
CreditElements(i) ==
    {[phrase |-> " & "]} \cup
    {Restrict([artist |-> a, name |-> "Credited " \o ArtistNames[i]], {"artist"} \cup S) :
        a \in WithOptionalKeys(
                 [name : {ArtistNames[i]}, id : {"id-" \o ArtistNames[i]},
                  sort_name : {ArtistNames[i] \o ", The"}, alias_list : CreditAliasLists],
                 {"name", "id"}),
        S \in SUBSET {"name"}}

RECURSIVE CreditsOf(_)
\* the credits of n elements
CreditsOf(n) ==
    IF n = 0 THEN {<<>>}
    ELSE {Append(c, el) : c \in CreditsOf(n - 1), el \in CreditElements(n)}

Credits(max) == UNION {CreditsOf(n) : n \in 0..max}

InitCredit ==
    /\ fn = "_flatten_artist_credit"
    /\ arg \in {[credit |-> c] : c \in Credits(MaxCredit)}
    /\ config \in {[DefaultConfig EXCEPT !.languages = l] : l \in {<<>>, <<"en">>}}
    /\ ret = Pending
    /\ IdleAlbum /\ IdleLookup /\ IdleArt

Apply_flatten_artist_credit ==
    /\ fn = "_flatten_artist_credit"
    /\ ret = Pending
    /\ ret' = _flatten_artist_credit(arg.credit, config)
    /\ UNCHANGED <<config, fn, arg>>
    /\ UNCHANGED <<albumVars, lookupVars, artVars>>

SpecCredit == InitCredit /\ [][Apply_flatten_artist_credit]_vars

\* C6: _flatten_artist_credit returns a result for every credit, and the sort
\* string is made, element by element, of the join phrase, or of the chosen
\* alias's sort-name if the alias carries one, else the artist's own sort-name if
\* present, else the appearance name.
C6_SortNameFallback ==
    (fn = "_flatten_artist_credit" /\ ret # Pending) =>
        /\ "value" \in DOMAIN ret
        /\ LET SortPart(el) ==
                   IF "phrase" \in DOMAIN el THEN el.phrase
                   ELSE LET alias == _preferred_alias(getdefault(el.artist, "alias_list", <<>>),
                                                      config)
                        IN  IF alias # None /\ "sort_name" \in DOMAIN alias
                            THEN alias.sort_name
                            ELSE IF "sort_name" \in DOMAIN el.artist
                                 THEN el.artist.sort_name
                                 ELSE IF alias # None THEN alias.alias ELSE el.artist.name
           IN  ret.value[2] = join("", [i \in DOMAIN arg.credit |-> SortPart(arg.credit[i])])

(***************************************************************************)
(* _set_date_str                                                           *)
(***************************************************************************)
RECURSIVE SetDateParts(_, _, _, _)
\* the loop over ('year', 'month', 'day'): each key pops the next part, if one is
\* left; a part that is no integer is dropped and the loop goes on to the next key
SetDateParts(info_, keys, date_parts, original) ==
    IF keys = <<>> THEN info_
    ELSE IF date_parts = <<>> THEN SetDateParts(info_, Tail(keys), date_parts, original)
    ELSE LET date_num == int(Head(date_parts))
             key == IF original THEN "original_" \o Head(keys) ELSE Head(keys)
         IN  IF "raise" \in DOMAIN date_num
             THEN SetDateParts(info_, Tail(keys), Tail(date_parts), original)
             ELSE SetDateParts(setitem(info_, key, date_num.value),
                               Tail(keys), Tail(date_parts), original)

_set_date_str(info_, date_str, original) ==
    IF date_str = <<>> THEN info_
    ELSE SetDateParts(info_, <<"year", "month", "day">>, split(date_str, "-"), original)

MaxDateParts == 3

DateParts == {<<"1", "9", "9", "9">>, <<"0", "7">>, <<>>, <<"x", "x">>}

RECURSIVE joinchars(_, _)
\* sep.join(parts) for parts that are sequences of characters
joinchars(sep, parts) ==
    IF parts = <<>> THEN <<>>
    ELSE IF Len(parts) = 1 THEN parts[1]
    ELSE parts[1] \o sep \o joinchars(sep, Tail(parts))

\* the date strings of at most max parts joined by '-'
DateStrings(max) ==
    UNION {{joinchars(<<"-">>, f) : f \in [1..n -> DateParts]} : n \in 1..max}

InitDate ==
    /\ fn = "_set_date_str"
    /\ arg \in {[date_str |-> d, original |-> o] : d \in DateStrings(MaxDateParts), o \in BOOLEAN}
    /\ config = DefaultConfig
    /\ ret = Pending
    /\ IdleAlbum /\ IdleLookup /\ IdleArt

Apply_set_date_str ==
    /\ fn = "_set_date_str"
    /\ ret = Pending
    /\ ret' = [info |-> _set_date_str(<<>>, arg.date_str, arg.original)]
    /\ UNCHANGED <<config, fn, arg>>
    /\ UNCHANGED <<albumVars, lookupVars, artVars>>

SpecDate == InitDate /\ [][Apply_set_date_str]_vars

\* C7: the slots _set_date_str sets form a prefix of (year, month, day): month is
\* set only if year is, day only if month is; '1999' sets only year = 1999,
\* '1999-07' sets year = 1999 and month = 7, '' sets nothing.
C7_DatePrefix ==
    (fn = "_set_date_str" /\ ret # Pending) =>
        LET pre == IF arg.original THEN "original_" ELSE ""
            set == DOMAIN ret.info
        IN  /\ (pre \o "month") \in set => (pre \o "year") \in set
            /\ (pre \o "day") \in set => (pre \o "month") \in set
            /\ arg.date_str = <<"1", "9", "9", "9">> =>
                   ret.info = setitem(<<>>, pre \o "year", 1999)
            /\ arg.date_str = <<"1", "9", "9", "9", "-", "0", "7">> =>
                   ret.info = setitem(setitem(<<>>, pre \o "year", 1999), pre \o "month", 7)
            /\ arg.date_str = <<>> => ret.info = <<>>

(***************************************************************************)
(* _preferred_release_event                                                *)
(***************************************************************************)
RECURSIVE EventForCountry(_, _)
\* the loop over the release events for one country: an event without an area,
\* without a code list or, when its code list holds the country, without a date
\* raises KeyError and is passed over
EventForCountry(country, events) ==
    IF events = <<>> THEN None
    ELSE LET event == Head(events)
         IN  IF /\ "area" \in DOMAIN event
                /\ "iso_3166_1_code_list" \in DOMAIN event.area
                /\ InSeq(country, event.area.iso_3166_1_code_list)
                /\ "date" \in DOMAIN event
             THEN Some(<<Some(country), Some(event.date)>>)
             ELSE EventForCountry(country, Tail(events))

RECURSIVE EventForCountries(_, _)
EventForCountries(countries, events) ==
    IF countries = <<>> THEN None
    ELSE LET found == EventForCountry(Head(countries), events)
         IN  IF found # None THEN found ELSE EventForCountries(Tail(countries), events)

\* a variant: the first event that names any preferred country decides
_preferred_release_event_event_order(release_, cfg) ==
    LET events == getdefault(release_, "release_event_list", <<>>)
        hits == {i \in DOMAIN events :
                    \E k \in DOMAIN cfg.countries :
                        EventForCountry(cfg.countries[k], <<events[i]>>) # None}
    IN  IF hits # {}
        THEN LET e == events[Min(hits)]
                 k == Min({x \in DOMAIN cfg.countries :
                              EventForCountry(cfg.countries[x], <<e>>) # None})
             IN  <<Some(cfg.countries[k]), Some(e.date)>>
        ELSE <<get(release_, "country"), get(release_, "date")>>

\* the pair (country, release_date), each an Optional
_preferred_release_event(release_, cfg) ==
    LET found == EventForCountries(cfg.countries,
                                   getdefault(release_, "release_event_list", <<>>))
    IN  IF found # None THEN found[1]
        ELSE <<get(release_, "country"), get(release_, "date")>>

MaxEvents == 2

Countries == {"US", "GB"}

\* the date of the i-th release event of a release
EventDates == [i \in 1..9 |-> <<"2", "0", "0", Digits[i + 1]>>]

EventShapes ==
    WithOptionalKeys(
        [area : WithOptionalKeys(
                    [iso_3166_1_code_list : {<<"US">>, <<"GB">>, <<"XE">>, <<"GB", "US">>}], {}),
         date : {<<"?">>}],
        {})

EventListsOf(n) ==
    {[i \in 1..n |-> IF "date" \in DOMAIN f[i] THEN setitem(f[i], "date", EventDates[i]) ELSE f[i]] :
        f \in [1..n -> EventShapes]}

EventReleases(max) ==
    {Restrict([release_event_list |-> l, country |-> "XW",
               date |-> <<"1", "9", "9", "9">>], S) :
        l \in UNION {EventListsOf(n) : n \in 0..max},
        S \in SUBSET {"release_event_list", "country", "date"}}

CountryConfigs == {<<>>, <<"US">>, <<"US", "GB">>, <<"GB", "US">>}

InitEvent ==
    /\ fn = "_preferred_release_event"
    /\ arg \in {[release |-> r] : r \in EventReleases(MaxEvents)}
    /\ config \in {[DefaultConfig EXCEPT !.countries = c] : c \in CountryConfigs}
    /\ ret = Pending
    /\ IdleAlbum /\ IdleLookup /\ IdleArt

Apply_preferred_release_event ==
    /\ fn = "_preferred_release_event"
    /\ ret = Pending
    /\ ret' = [value |-> _preferred_release_event(arg.release, config)]
    /\ UNCHANGED <<config, fn, arg>>
    /\ UNCHANGED <<albumVars, lookupVars, artVars>>

SpecEvent == InitEvent /\ [][Apply_preferred_release_event]_vars

\* the positions of the release events whose area code list holds country
EventsNaming(release_, country) ==
    LET events == getdefault(release_, "release_event_list", <<>>)
    IN  {i \in DOMAIN events : /\ "area" \in DOMAIN events[i]
                               /\ "iso_3166_1_code_list" \in DOMAIN events[i].area
                               /\ InSeq(country, events[i].area.iso_3166_1_code_list)}

\* C8 as stated: if some release event's area code list holds a preferred country,
\* the result is (C, the date of the first such event for C), C the earliest
\* configured country that any event holds; otherwise it is the release's own
\* country and date.
C8_PreferredEventAnyEvent ==
    (fn = "_preferred_release_event" /\ ret # Pending) =>
        LET events == getdefault(arg.release, "release_event_list", <<>>)
            Has == {k \in DOMAIN config.countries :
                        EventsNaming(arg.release, config.countries[k]) # {}}
        IN  IF Has # {}
            THEN LET C == config.countries[Min(Has)]
                     e == events[Min(EventsNaming(arg.release, C))]
                 IN  ret.value = <<Some(C), get(e, "date")>>
            ELSE ret.value = <<get(arg.release, "country"), get(arg.release, "date")>>

\* C8, amended: the same, counting only the release events that carry a date; an
\* event without one is passed over like an event without an area code list.
C8_PreferredEventDated ==
    (fn = "_preferred_release_event" /\ ret # Pending) =>
        LET events == getdefault(arg.release, "release_event_list", <<>>)
            Dated(c) == {i \in EventsNaming(arg.release, c) : "date" \in DOMAIN events[i]}
            Has == {k \in DOMAIN config.countries : Dated(config.countries[k]) # {}}
        IN  IF Has # {}
            THEN LET C == config.countries[Min(Has)]
                     e == events[Min(Dated(C))]
                 IN  ret.value = <<Some(C), Some(e.date)>>
            ELSE ret.value = <<get(arg.release, "country"), get(arg.release, "date")>>

\* the events are listed GB first, the configuration prefers US, and the US
\* event's date was returned
C8_Witness ==
    /\ fn = "_preferred_release_event" /\ ret # Pending
    /\ config.countries = <<"US", "GB">>
    /\ "release_event_list" \in DOMAIN arg.release
    /\ Len(arg.release.release_event_list) = 2
    /\ arg.release.release_event_list[1] =
           [area |-> [iso_3166_1_code_list |-> <<"GB">>], date |-> EventDates[1]]
    /\ arg.release.release_event_list[2] =
           [area |-> [iso_3166_1_code_list |-> <<"US">>], date |-> EventDates[2]]
    /\ ret.value = <<Some("US"), Some(EventDates[2])>>

(***************************************************************************)
(* track_info                                                              *)
(***************************************************************************)
BASE_URL == "https://musicbrainz.org/"

track_url(trackid) == BASE_URL \o "recording/" \o trackid

album_url(albumid) == BASE_URL \o "release/" \o albumid

\* d.get(k) is taken for true: the key is there and its list, or its str held as
\* a sequence of characters, is not empty
truthy(d, k) == k \in DOMAIN d /\ d[k] # <<>>

\* the same for a str held as a TLA+ string
truthystr(d, k) == k \in DOMAIN d /\ d[k] # ""

\* obj.k = o for an Optional o: an attribute that is None is not a key
setopt(d, k, o) == IF o = None THEN d ELSE setitem(d, k, o[1])

_get_related_artist_names(relations, relation_type) ==
    LET related == SelectSeq(relations, LAMBDA relation : relation.type = relation_type)
    IN  join(", ", [i \in DOMAIN related |-> related[i].artist.name])

\* the names (or sort-names) of the type-typed artist relations of a work
WorkArtists(work, type, field) ==
    LET rels == SelectSeq(getdefault(work, "artist_relation_list", <<>>),
                          LAMBDA r : "type" \in DOMAIN r /\ r.type = type)
    IN  [i \in DOMAIN rels |-> rels[i].artist[field]]

RECURSIVE WorkLoop(_, _)
\* the loop over the work relations: every 'performance' relation overwrites work
\* and mb_workid, overwrites work_disambig only if its work has a disambiguation,
\* and adds its work's lyricists and composers
WorkLoop(acc, work_relations) ==
    IF work_relations = <<>> THEN acc
    ELSE LET work_relation == Head(work_relations)
             work == work_relation.work
             named == setitem(setitem(acc.info, "work", work.title), "mb_workid", work.id)
         IN  IF work_relation.type # "performance"
             THEN WorkLoop(acc, Tail(work_relations))
             ELSE WorkLoop(
                      [info |-> IF "disambiguation" \in DOMAIN work
                                THEN setitem(named, "work_disambig", work.disambiguation)
                                ELSE named,
                       lyricist |-> acc.lyricist \o WorkArtists(work, "lyricist", "name"),
                       composer |-> acc.composer \o WorkArtists(work, "composer", "name"),
                       composer_sort |->
                           acc.composer_sort \o WorkArtists(work, "composer", "sort_name")],
                      Tail(work_relations))

\* obj.k = v when cond holds; v is not evaluated when it does not
setif(cond, d, k, v) == IF cond THEN setitem(d, k, v) ELSE d

\* TrackInfo(title=..., track_id=..., index=..., medium=..., ...)
TrackBase(recording, index, medium, medium_index, medium_total) ==
    setopt(setopt(setopt(setopt(
        [title |-> recording.title, track_id |-> recording.id,
         data_source |-> "MusicBrainz", data_url |-> track_url(recording.id)],
        "index", index), "medium", medium), "medium_index", medium_index),
        "medium_total", medium_total)

\* the artist fields, set when the recording has an artist credit
WithArtist(i, recording, credit) ==
    IF credit = None THEN i
    ELSE [k \in DOMAIN i \cup {"artist", "artist_sort", "artist_credit", "artist_id"} |->
              CASE k = "artist" -> credit[1]
                [] k = "artist_sort" -> credit[2]
                [] k = "artist_credit" -> credit[3]
                [] k = "artist_id" -> recording.artist_credit[1].artist.id
                [] OTHER -> i[k]]

\* the fields the loop over the work relations leaves
WorkFields(w) ==
    setif(w.composer # <<>>,
          setif(w.composer # <<>>,
                setif(w.lyricist # <<>>, w.info, "lyricist", join(", ", w.lyricist)),
                "composer", join(", ", w.composer)),
          "composer_sort", join(", ", w.composer_sort))

\* the names of the arrangers among the artist relations
Arrangers(recording) ==
    LET arrangers == SelectSeq(getdefault(recording, "artist_relation_list", <<>>),
                               LAMBDA r : "type" \in DOMAIN r /\ r.type = "arranger")
    IN  [i \in DOMAIN arrangers |-> arrangers[i].artist.name]

\* the fields track_info sets after the artist's, in the order of the code
TrackFields(i, recording) ==
    setif(Arrangers(recording) # <<>>,
          WorkFields(WorkLoop(
              [info |-> setif(truthy(recording, "isrc_list"),
                              setopt(setif(truthy(recording, "length"),
                                           setif(truthy(recording, "artist_relation_list"),
                                                 i, "remixer",
                                                 _get_related_artist_names(
                                                     recording.artist_relation_list, "remixer")),
                                           "length",
                                           [num |-> int(recording.length).value, den |-> 1000]),
                                     "trackdisambig", get(recording, "disambiguation")),
                              "isrc", join(";", recording.isrc_list)),
               lyricist |-> <<>>, composer |-> <<>>, composer_sort |-> <<>>],
              getdefault(recording, "work_relation_list", <<>>))),
          "arranger", join(", ", Arrangers(recording)))

\* the TrackInfo of a recording whose artist credit flattens to flat
TrackResult(flat, recording, i) ==
    IF "raise" \in DOMAIN flat THEN flat
    ELSE [value |-> TrackFields(WithArtist(i, recording, flat.value), recording)]

\* index, medium, medium_index and medium_total are Optionals. plugins.send
\* has no listener and info.decode leaves a str as it is.
track_info(recording, index, medium, medium_index, medium_total, cfg) ==
    TrackResult(IF truthy(recording, "artist_credit")
                THEN _flatten_artist_credit(recording.artist_credit, cfg)
                ELSE [value |-> None],
                recording,
                TrackBase(recording, index, medium, medium_index, medium_total))

(***************************************************************************)
(* album_info                                                              *)
(***************************************************************************)
VARIOUS_ARTISTS_ID == "89ad4ac3-39f7-470e-963a-56509c546377"

SKIPPED_TRACKS == <<"[data track]">>

BROWSE_CHUNKSIZE == 100

BROWSE_MAXTRACKS == 500

Max(S) == CHOOSE x \in S : \A y \in S : y <= x

RECURSIVE SumTrackLists(_)
SumTrackLists(medium_list) ==
    IF medium_list = <<>> THEN 0
    ELSE Len(Head(medium_list).track_list) + SumTrackLists(Tail(medium_list))

\* range(0, ntracks, BROWSE_CHUNKSIZE)
BrowseOffsets(ntracks) ==
    [k \in 1..((ntracks + BROWSE_CHUNKSIZE - 1) \div BROWSE_CHUNKSIZE) |->
        (k - 1) * BROWSE_CHUNKSIZE]

\* musicbrainzngs.browse_recordings(release=id, limit=limit, offset=offset): the
\* page of the recordings the service holds for the release
browse_recordings(svc, release_id, limit, offset) ==
    LET held == svc[release_id]
    IN  [recording_list |-> SubSeq(held, offset + 1, Min({offset + limit, Len(held)}))]

RECURSIVE BrowseAll(_, _, _)
\* recording_list after the browse loop
BrowseAll(svc, release_id, offsets) ==
    IF offsets = <<>> THEN <<>>
    ELSE browse_recordings(svc, release_id, BROWSE_CHUNKSIZE, Head(offsets)).recording_list
         \o BrowseAll(svc, release_id, Tail(offsets))

\* the release after the substitution loop: every track of every medium's track
\* list gets the browsed recording of its recording's id. A recording the browse
\* did not return raises KeyError, with the tracks before it substituted.
SubstituteRecordings(release_, svc) ==
    LET recording_list == BrowseAll(svc, release_.id,
                                    BrowseOffsets(SumTrackLists(release_.medium_list)))
        ids == {recording_list[i].id : i \in DOMAIN recording_list}
        track_map == [id \in ids |->
                         recording_list[Max({i \in DOMAIN recording_list :
                                                recording_list[i].id = id})]]
        media == release_.medium_list
        missing == {p \in UNION {{<<m, t>> : t \in DOMAIN media[m].track_list} : m \in DOMAIN media} :
                        media[p[1]].track_list[p[2]].recording.id \notin ids}
        Before(m, t) == \A p \in missing : m < p[1] \/ (m = p[1] /\ t < p[2])
        substituted ==
            [release_ EXCEPT !.medium_list =
                [m \in DOMAIN media |->
                    [media[m] EXCEPT !.track_list =
                        [t \in DOMAIN media[m].track_list |->
                            IF Before(m, t)
                            THEN [media[m].track_list[t] EXCEPT
                                      !.recording = track_map[@.id]]
                            ELSE media[m].track_list[t]]]]]
    IN  IF missing = {} THEN [value |-> substituted]
        ELSE [raise |-> "KeyError", value |-> substituted]

\* a variant that takes track_count after the pregap track is inserted
AllTracks_count_after_pregap(medium, cfg) ==
    LET listed == IF "data_track_list" \in DOMAIN medium /\ ~cfg.ignore_data_tracks
                  THEN medium.track_list \o medium.data_track_list
                  ELSE medium.track_list
        all_tracks == IF "pregap" \in DOMAIN medium THEN <<medium.pregap>> \o listed
                      ELSE listed
    IN  [track_count |-> Len(all_tracks), all_tracks |-> all_tracks]

\* all_tracks of a medium, and track_count, which is taken before the pregap
\* track is inserted
AllTracks(medium, cfg) ==
    LET listed == IF "data_track_list" \in DOMAIN medium /\ ~cfg.ignore_data_tracks
                  THEN medium.track_list \o medium.data_track_list
                  ELSE medium.track_list
    IN  [track_count |-> Len(listed),
         all_tracks |-> IF "pregap" \in DOMAIN medium THEN <<medium.pregap>> \o listed
                        ELSE listed]

IgnoredMedium(medium, cfg) ==
    "format" \in DOMAIN medium /\ InSeq(medium.format, cfg.ignored_media)

\* the medium as the loop leaves it: all_tracks is the medium's own track list,
\* so extending it and inserting into it changes the medium
MediumAfter(medium, cfg) ==
    IF IgnoredMedium(medium, cfg) THEN medium
    ELSE [medium EXCEPT !.track_list = AllTracks(medium, cfg).all_tracks]

SkippedTrack(track, cfg) ==
    \/ "title" \in DOMAIN track.recording /\ InSeq(track.recording.title, SKIPPED_TRACKS)
    \/ /\ "video" \in DOMAIN track.recording
       /\ track.recording.video = "true"
       /\ cfg.ignore_video_tracks

RECURSIVE TrackPlan(_, _, _)
\* the tracks the two loops visit from the m-th medium on, in order, each with its
\* medium and track_count
TrackPlan(medium_list, m, cfg) ==
    IF m > Len(medium_list) THEN <<>>
    ELSE LET medium == medium_list[m]
             a == AllTracks(medium, cfg)
         IN  (IF IgnoredMedium(medium, cfg) THEN <<>>
              ELSE [i \in DOMAIN a.all_tracks |->
                       [m |-> m, medium |-> medium, track |-> a.all_tracks[i],
                        track_count |-> a.track_count]])
             \o TrackPlan(medium_list, m + 1, cfg)

\* what the loop sets on the TrackInfo of a track: the track's own data is
\* preferred over the recording's
TrackOverrides(ti, track, medium, credit) ==
    setif(truthy(track, "length"),
          WithArtist(setif(truthystr(track, "title"),
                           setitem(setopt(setopt(setitem(ti, "release_track_id", track.id),
                                                 "disctitle", get(medium, "title")),
                                          "media", get(medium, "format")),
                                   "track_alt", track.number),
                           "title", track.title),
                     track, credit),
          "length", [num |-> int(track.length).value, den |-> 1000])

\* the TrackInfo of a track whose recording gives ti and whose own artist credit
\* flattens to flat
ReleaseTrackResult(ti, flat, track, medium) ==
    IF "raise" \in DOMAIN ti THEN ti
    ELSE IF "raise" \in DOMAIN flat THEN flat
    ELSE [value |-> TrackOverrides(ti.value, track, medium, flat.value)]

\* the TrackInfo of one visited track that is not skipped
ReleaseTrack(p, index, cfg) ==
    ReleaseTrackResult(
        track_info(p.track.recording, Some(index), Some(int(p.medium.position).value),
                   Some(int(p.track.position).value), Some(p.track_count), cfg),
        IF truthy(p.track, "artist_credit")
        THEN _flatten_artist_credit(p.track.artist_credit, cfg)
        ELSE [value |-> None],
        p.track, p.medium)

RECURSIVE CountGenres(_, _)
\* the Counter, as the (name, count) pairs in the order the names were first added
CountGenres(genres, source) ==
    IF source = <<>> THEN genres
    ELSE LET genreitem == Head(source)
             at == {i \in DOMAIN genres : genres[i].name = genreitem.name}
             n == int(genreitem.count).value
         IN  CountGenres(IF at = {} THEN Append(genres, [name |-> genreitem.name, count |-> n])
                         ELSE [genres EXCEPT ![Min(at)].count = @ + n],
                         Tail(source))

RECURSIVE SortedByCount_ties_reversed(_)
\* a sort by descending count that puts a later item before earlier items of the
\* same count
SortedByCount_ties_reversed(genres) ==
    IF genres = <<>> THEN <<>>
    ELSE LET done == SortedByCount_ties_reversed(SubSeq(genres, 1, Len(genres) - 1))
             g == genres[Len(genres)]
             k == Cardinality({i \in DOMAIN done : done[i].count > g.count})
         IN  SubSeq(done, 1, k) \o <<g>> \o SubSeq(done, k + 1, Len(done))

RECURSIVE SortedByCount(_)
\* sorted(genres.items(), key=lambda g: -g[1]): a stable sort, highest count first
SortedByCount(genres) ==
    IF genres = <<>> THEN <<>>
    ELSE LET done == SortedByCount(SubSeq(genres, 1, Len(genres) - 1))
             g == genres[Len(genres)]
             k == Cardinality({i \in DOMAIN done : done[i].count >= g.count})
         IN  SubSeq(done, 1, k) \o <<g>> \o SubSeq(done, k + 1, Len(done))

GenreString(release_) ==
    LET genres == CountGenres(CountGenres(<<>>, getdefault(release_.release_group,
                                                           "genre_list", <<>>)),
                              getdefault(release_, "genre_list", <<>>))
        ordered == SortedByCount(genres)
    IN  join("; ", [i \in DOMAIN ordered |-> ordered[i].name])

\* AlbumInfo(album=..., album_id=..., ...), info.va and the various-artists name
AlbumBase(release_, flat, artist_id, cfg) ==
    [album |-> release_.title, album_id |-> release_.id,
     artist |-> IF artist_id = VARIOUS_ARTISTS_ID THEN cfg.va_name ELSE flat[1],
     artist_id |-> artist_id,
     mediums |-> Len(release_.medium_list),
     artist_sort |-> flat[2], artist_credit |-> flat[3],
     data_source |-> "MusicBrainz", data_url |-> album_url(release_.id),
     va |-> artist_id = VARIOUS_ARTISTS_ID, releasegroup_id |-> release_.release_group.id]

\* info.albumtypes
AlbumTypes(rg) ==
    (IF truthy(rg, "primary_type") THEN <<lower(rg.primary_type)>> ELSE <<>>)
    \o (IF truthy(rg, "secondary_type_list")
        THEN [i \in DOMAIN rg.secondary_type_list |-> lower(rg.secondary_type_list[i])]
        ELSE <<>>)

\* asin, albumstatus, the disambiguations and the release types
WithTypes(a, release_, rg) ==
    setitem(setif(truthy(rg, "type"),
                  setif(truthystr(release_, "disambiguation"),
                        setif(truthystr(rg, "disambiguation"),
                              setopt(setopt(a, "asin", get(release_, "asin")),
                                     "albumstatus", get(release_, "status")),
                              "releasegroupdisambig", rg.disambiguation),
                        "albumdisambig", release_.disambiguation),
                  "albumtype", lower(rg.type)),
            "albumtypes", AlbumTypes(rg))

\* the str of an Optional date, '' for None
datestr(o) == IF o = None THEN <<>> ELSE o[1]

\* country and the release dates, from the preferred release event
WithDates(a, event, release_group_date) ==
    _set_date_str(
        _set_date_str(setopt(a, "country", event[1]),
                      datestr(IF event[2] = None \/ event[2] = Some(<<>>)
                              THEN release_group_date ELSE event[2]),
                      FALSE),
        datestr(release_group_date), TRUE)

\* label and catalognum, from the first label info
WithLabel(a, release_) ==
    IF truthy(release_, "label_info_list")
    THEN setopt(setif(truthy(release_.label_info_list[1], "label")
                          /\ release_.label_info_list[1].label.name # "[no label]",
                      a, "label", release_.label_info_list[1].label.name),
                "catalognum", get(release_.label_info_list[1], "catalog_number"))
    ELSE a

\* script and language, from the text representation
WithText(a, release_) ==
    IF truthy(release_, "text_representation")
    THEN setopt(setopt(a, "script", get(release_.text_representation, "script")),
                "language", get(release_.text_representation, "language"))
    ELSE a

\* media, from the first medium
WithMedia(a, release_) ==
    IF release_.medium_list # <<>>
    THEN setopt(a, "media", get(release_.medium_list[1], "format")) ELSE a

\* the fields of the AlbumInfo other than tracks
AlbumFields(release_, flat, cfg) ==
    setif(cfg.genres,
          WithMedia(
              WithText(
                  WithLabel(
                      WithDates(
                          WithTypes(AlbumBase(release_, flat,
                                              release_.artist_credit[1].artist.id, cfg),
                                    release_, release_.release_group),
                          _preferred_release_event(release_, cfg),
                          get(release_.release_group, "first_release_date")),
                      release_),
                  release_),
              release_),
          "genre", GenreString(release_))

\* the release once the loop over the media has gone through its first n media
ReleaseAfter(release_, n, cfg) ==
    [release_ EXCEPT !.medium_list =
        [m \in DOMAIN @ |-> IF m <= n THEN MediumAfter(@[m], cfg) ELSE @[m]]]

\* the browse_recordings calls of a release of ntracks tracks
BrowseCalls(release_, ntracks) ==
    [i \in DOMAIN BrowseOffsets(ntracks) |->
        [release |-> release_.id, limit |-> BROWSE_CHUNKSIZE,
         offset |-> BrowseOffsets(ntracks)[i]]]

\* the release after the track-count overflow handling, and the calls issued
Browsed(release_, svc, ntracks) ==
    IF ntracks > BROWSE_MAXTRACKS
    THEN SubstituteRecordings(release_, svc) @@ [browses |-> BrowseCalls(release_, ntracks)]
    ELSE [value |-> release_, browses |-> <<>>]

\* the visited tracks that are not skipped
Kept(release_, cfg) ==
    SelectSeq(TrackPlan(release_.medium_list, 1, cfg), LAMBDA p : ~SkippedTrack(p.track, cfg))

\* the end of album_info: the first track that raised leaves it, with the media
\* up to that track's gone through
Finished(release_, flat, kept, track_infos, failed, calls, cfg) ==
    IF failed # {}
    THEN [raise |-> track_infos[Min(failed)].raise,
          release |-> ReleaseAfter(release_, kept[Min(failed)].m, cfg), browses |-> calls]
    ELSE [value |-> setitem(AlbumFields(ReleaseAfter(release_, Len(release_.medium_list), cfg),
                                        flat, cfg),
                            "tracks", [i \in DOMAIN kept |-> track_infos[i].value]),
          release |-> ReleaseAfter(release_, Len(release_.medium_list), cfg),
          browses |-> calls]

\* the loop over the media and their tracks
Collected(release_, flat, kept, track_infos, calls, cfg) ==
    Finished(release_, flat, kept, track_infos,
             {i \in DOMAIN kept : "raise" \in DOMAIN track_infos[i]}, calls, cfg)

\* album_info once the artist credit is flattened to flat and the overflow
\* handling has given sub
AlbumResult(release_, flat, sub, kept, cfg) ==
    IF "raise" \in DOMAIN flat
    THEN [raise |-> flat.raise, release |-> release_, browses |-> <<>>]
    ELSE IF "raise" \in DOMAIN sub
    THEN [raise |-> sub.raise, release |-> sub.value, browses |-> sub.browses]
    ELSE Collected(sub.value, flat.value, kept,
                   [i \in DOMAIN kept |-> ReleaseTrack(kept[i], i, cfg)], sub.browses, cfg)

\* album_info once the overflow handling has given sub
AlbumTracks(release_, sub, cfg) ==
    AlbumResult(release_, _flatten_artist_credit(release_.artist_credit, cfg), sub,
                Kept(sub.value, cfg), cfg)

\* album_info(release): what it returns or raises, the release as it leaves it,
\* and the browse calls it issued. plugins.send has no listener and info.decode
\* leaves a str as it is.
album_info(release_, svc, cfg) ==
    AlbumTracks(release_, Browsed(release_, svc, SumTrackLists(release_.medium_list)), cfg)

\* album_info(release) on the caller's release dict
AlbumInfo ==
    /\ release # None
    /\ info = Pending
    /\ LET r == album_info(release, service, config)
       IN  /\ info' = (IF "raise" \in DOMAIN r THEN [raise |-> r.raise]
                       ELSE [value |-> r.value])
           /\ release' = r.release
           /\ browses' = browses \o r.browses
    /\ UNCHANGED <<config, service, again>>
    /\ UNCHANGED <<pureVars, lookupVars, artVars>>

(***************************************************************************)
(* Releases as the service returns them                                    *)
(***************************************************************************)
RECURSIVE str(_)
\* str(n) for a natural number
str(n) == IF n < 10 THEN <<Digits[n + 1]>> ELSE str(n \div 10) \o <<Digits[(n % 10) + 1]>>

Artist(name) == [name |-> name, id |-> "id-" \o name, sort_name |-> name \o ", The"]

\* the relations of the i-th recording of a release: a performed work with a
\* composer and a lyricist, a remixer and an arranger, or none, in turn
RecordingRelations(i, pattern) ==
    CASE (i + pattern) % 3 = 0 ->
             [work_relation_list |->
                 <<[type |-> "performance",
                    work |-> [title |-> "Work " \o ToString(i), id |-> "work" \o ToString(i),
                              artist_relation_list |->
                                  <<[type |-> "composer", artist |-> Artist("Composer")],
                                    [type |-> "lyricist", artist |-> Artist("Lyricist")]>>]]>>]
      [] (i + pattern) % 3 = 1 ->
             [artist_relation_list |->
                 <<[type |-> "remixer", artist |-> Artist("Remixer")],
                   [type |-> "arranger", artist |-> Artist("Arranger")]>>]
      [] OTHER -> <<>>

\* the i-th recording as the service holds it
Recording(i, pattern) ==
    [id |-> "rec" \o ToString(i), title |-> "Title " \o ToString(i)] @@ RecordingRelations(i, pattern)

\* a recording as a release of more than BROWSE_MAXTRACKS tracks embeds it: the
\* service leaves out its relation lists
Stripped(recording) ==
    Restrict(recording, DOMAIN recording \ {"artist_relation_list", "work_relation_list"})

Track(i, position, recording) ==
    [id |-> "trk" \o ToString(i), position |-> str(position), number |-> ToString(position),
     recording |-> recording]

RECURSIVE SumSeq(_)
SumSeq(q) == IF q = <<>> THEN 0 ELSE Head(q) + SumSeq(Tail(q))

\* The release whose media hold sizes[1], sizes[2], ... tracks; with pregap its
\* first medium declares a pregap track, with data a data track. The embedded
\* recordings are those of Embedded.
ServiceRelease(sizes, pregap, data, Embedded(_)) ==
    LET total == SumSeq(sizes)
        first(m) == SumSeq(SubSeq(sizes, 1, m - 1))
        optional == (IF pregap THEN {"pregap"} ELSE {}) \cup (IF data THEN {"data_track_list"} ELSE {})
    IN  [id |-> "release1", title |-> "Album",
         artist_credit |-> <<[artist |-> Artist("A")]>>,
         release_group |-> [id |-> "group1"],
         medium_list |->
             [m \in DOMAIN sizes |->
                 Restrict([position |-> str(m), format |-> "CD",
                           track_list |-> [t \in 1..sizes[m] |->
                                              Track(first(m) + t, t, Embedded(first(m) + t))],
                           pregap |-> Track(total + 1, 0, Embedded(total + 1)),
                           data_track_list |-> <<Track(total + 2, sizes[m] + 1,
                                                       Embedded(total + 2))>>],
                          {"position", "format", "track_list"}
                              \cup (IF m = 1 THEN optional ELSE {}))]]

(***************************************************************************)
(* track_info on recordings with artist relations and work relations       *)
(***************************************************************************)
MaxRelations == 2

RelationTypes == {"remixer", "arranger", "producer"}

\* the i-th artist relation of a recording
ArtistRelation(i, type) == [type |-> type, artist |-> Artist("Artist " \o ToString(i))]

ArtistRelationLists(max) ==
    UNION {{[i \in 1..n |-> ArtistRelation(i, types[i])] : types \in [1..n -> RelationTypes]} :
              n \in 0..max}

WorkShapes == [type : {"performance", "medley"}, disambiguated : BOOLEAN]

\* the i-th work relation of a recording; a work may carry no disambiguation
WorkRelation(i, shape) ==
    [type |-> shape.type,
     work |-> Restrict([title |-> "Work " \o ToString(i), id |-> "work" \o ToString(i),
                        disambiguation |-> "version " \o ToString(i)],
                       {"title", "id"}
                           \cup (IF shape.disambiguated THEN {"disambiguation"} ELSE {}))]

WorkRelationLists(max) ==
    UNION {{[i \in 1..n |-> WorkRelation(i, shapes[i])] : shapes \in [1..n -> WorkShapes]} :
              n \in 0..max}

\* a recording; either relation list may be missing
RelatedRecording(artist_relations, work_relations) ==
    Restrict([id |-> "rec1", title |-> "Title",
              artist_relation_list |-> IF artist_relations = None THEN <<>>
                                       ELSE artist_relations[1],
              work_relation_list |-> IF work_relations = None THEN <<>>
                                     ELSE work_relations[1]],
             {"id", "title"}
                 \cup (IF artist_relations = None THEN {} ELSE {"artist_relation_list"})
                 \cup (IF work_relations = None THEN {} ELSE {"work_relation_list"}))

InitTrack ==
    /\ fn = "track_info"
    /\ arg \in {[recording |-> RelatedRecording(a, w)] :
                   a \in {None} \cup {Some(l) : l \in ArtistRelationLists(MaxRelations)},
                   w \in {None} \cup {Some(l) : l \in WorkRelationLists(MaxRelations)}}
    /\ config = DefaultConfig
    /\ ret = Pending
    /\ IdleAlbum /\ IdleLookup /\ IdleArt

\* track_info(recording), the call of a standalone track lookup
Apply_track_info ==
    /\ fn = "track_info"
    /\ ret = Pending
    /\ ret' = track_info(arg.recording, None, None, None, None, config)
    /\ UNCHANGED <<config, fn, arg>>
    /\ UNCHANGED <<albumVars, lookupVars, artVars>>

SpecTrack == InitTrack /\ [][Apply_track_info]_vars

\* the relations of a type in a relation list, in list order
OfType(relations, type) == SelectSeq(relations, LAMBDA r : r.type = type)

\* C13: track_info sets the remixer field to the names of the artists of the
\* recording's artist relations of type 'remixer', in list order, joined with
\* ', ', and does not set it when the recording has no relation of type
\* 'remixer', also when its artist-relation list holds relations of other types.
C13_RemixerAbsentWithoutRemixer ==
    (fn = "track_info" /\ ret # Pending) =>
        /\ "value" \in DOMAIN ret
        /\ LET remixers == OfType(getdefault(arg.recording, "artist_relation_list", <<>>),
                                  "remixer")
           IN  IF remixers = <<>> THEN "remixer" \notin DOMAIN ret.value
               ELSE /\ "remixer" \in DOMAIN ret.value
                    /\ ret.value.remixer
                           = join(", ", [i \in DOMAIN remixers |-> remixers[i].artist.name])

\* C15: for a recording with work relations of type 'performance', the work
\* title, the work identifier and the work disambiguation track_info sets all come
\* from the last 'performance' relation's work, and the work disambiguation is not
\* set when that work has none.
C15_WorkFieldsFromOneWork ==
    (fn = "track_info" /\ ret # Pending) =>
        /\ "value" \in DOMAIN ret
        /\ LET performances == OfType(getdefault(arg.recording, "work_relation_list", <<>>),
                                      "performance")
               work == performances[Len(performances)].work
           IN  performances # <<>> =>
                   /\ "work" \in DOMAIN ret.value /\ ret.value.work = work.title
                   /\ "mb_workid" \in DOMAIN ret.value /\ ret.value.mb_workid = work.id
                   /\ IF "disambiguation" \in DOMAIN work
                      THEN /\ "work_disambig" \in DOMAIN ret.value
                           /\ ret.value.work_disambig = work.disambiguation
                      ELSE "work_disambig" \notin DOMAIN ret.value

(***************************************************************************)
(* album_info on releases around the browse threshold                      *)
(***************************************************************************)
\* the track counts of the media
BrowseSizes ==
    {<<BROWSE_MAXTRACKS + 1>>, <<BROWSE_MAXTRACKS>>, <<BROWSE_MAXTRACKS - 200, 201>>,
     <<BROWSE_MAXTRACKS - 200, 200>>, <<BROWSE_MAXTRACKS + BROWSE_CHUNKSIZE>>, <<2, 1>>}

Patterns == 0..2

\* The service holds the recordings of the track lists first, then those of the
\* pregap track and of the data track. It leaves the relation lists out of the
\* recordings a release embeds when the release has more than BROWSE_MAXTRACKS
\* tracks (mb.py, the comment above the browse loop).
InitBrowse ==
    /\ \E sizes \in BrowseSizes, pregap \in BOOLEAN, data \in BOOLEAN, pattern \in Patterns :
           LET n == SumSeq(sizes)
               held == [i \in 1..(n + 2) |-> Recording(i, pattern)]
           IN  /\ service = [id \in {"release1"} |-> held]
               /\ release = ServiceRelease(sizes, pregap, data,
                                LAMBDA i : IF n > BROWSE_MAXTRACKS THEN Stripped(held[i])
                                           ELSE held[i])
    /\ config \in {[DefaultConfig EXCEPT !.ignore_data_tracks = d] : d \in BOOLEAN}
    /\ info = Pending
    /\ browses = <<>>
    /\ again = Pending
    /\ IdlePure /\ IdleLookup /\ IdleArt

SpecBrowse == InitBrowse /\ [][AlbumInfo]_vars

\* the composer, lyricist, remixer and arranger fields of a TrackInfo
RelationFields(ti) ==
    Restrict(ti, DOMAIN ti \cap {"composer", "composer_sort", "lyricist", "remixer", "arranger"})

\* the recording the service holds under an id
HeldRecording(release_id, id) ==
    LET held == service[release_id]
    IN  held[CHOOSE i \in DOMAIN held : held[i].id = id]

\* the TrackInfo the direct path gives a track whose embedded recording carries
\* the relation data the service holds: album_info on a release of one track
DirectPathTrack(release_id, id) ==
    album_info(ServiceRelease(<<1>>, FALSE, FALSE, LAMBDA i : HeldRecording(release_id, id)),
               service, config).value.tracks[1]

\* the tracks a medium lists
MediumTracks(medium) ==
    Range(medium.track_list)
        \cup (IF "pregap" \in DOMAIN medium THEN {medium.pregap} ELSE {})
        \cup (IF "data_track_list" \in DOMAIN medium THEN Range(medium.data_track_list) ELSE {})

\* C4: album_info on a release as the service returned it. With more than 500
\* tracks it issues browse calls of page size 100 at offsets 0, 100, ... below the
\* track count, every track's recording is replaced by the browsed recording of
\* the same id, and the composer, lyricist, remixer and arranger fields of every
\* track are those of the direct path on a release carrying the same relation
\* data; with at most 500 tracks it issues no browse call.
C4_BrowseEquivalence ==
    [][(info = Pending /\ info' # Pending) =>
          LET ntracks == SumTrackLists(release.medium_list)
              r == info'
          IN  /\ "value" \in DOMAIN r
              /\ browses' = IF ntracks > BROWSE_MAXTRACKS
                            THEN [k \in 1..((ntracks + 99) \div 100) |->
                                     [release |-> release.id, limit |-> 100,
                                      offset |-> 100 * (k - 1)]]
                            ELSE <<>>
              /\ ntracks > BROWSE_MAXTRACKS =>
                     \A m \in DOMAIN release'.medium_list :
                         \A t \in MediumTracks(release'.medium_list[m]) :
                             t.recording = HeldRecording(release.id, t.recording.id)
              /\ \A i \in DOMAIN r.value.tracks :
                     RelationFields(r.value.tracks[i])
                         = RelationFields(DirectPathTrack(release.id, r.value.tracks[i].track_id))
      ]_vars

(***************************************************************************)
(* album_info on releases with pregap tracks, data tracks and skipped      *)
(* tracks, applied to the same release dict a second time                  *)
(***************************************************************************)
\* a second album_info(release) on the release dict the first one was given
AlbumInfoAgain ==
    /\ release # None
    /\ info # Pending
    /\ again = Pending
    /\ LET r == album_info(release, service, config)
       IN  /\ again' = (IF "raise" \in DOMAIN r THEN [raise |-> r.raise]
                        ELSE [value |-> r.value])
           /\ release' = r.release
           /\ browses' = browses \o r.browses
    /\ UNCHANGED <<config, service, info>>
    /\ UNCHANGED <<pureVars, lookupVars, artVars>>

MaxMedia == 2

\* what a medium may hold besides its two tracks: a pregap track, a data track
\* (an audio one or one carrying the sentinel title), a video as second track
MediumShapes ==
    {[format |-> "CD", pregap |-> p, data |-> d, video |-> v] :
         p \in BOOLEAN, d \in {"none", "audio", "sentinel"}, v \in BOOLEAN}
        \cup {[format |-> "DVD", pregap |-> TRUE, data |-> "none", video |-> TRUE]}

\* the recording of the n-th track
MediaRecording(n, title, video) ==
    Restrict([id |-> "rec" \o ToString(n), title |-> title, video |-> "true"],
             {"id", "title"} \cup (IF video THEN {"video"} ELSE {}))

\* the m-th medium of a release, of a given shape
ShapedMedium(m, shape) ==
    Restrict([position |-> str(m), format |-> shape.format,
              track_list |->
                  <<Track(10 * m + 1, 1, MediaRecording(10 * m + 1, "Title", FALSE)),
                    Track(10 * m + 2, 2, MediaRecording(10 * m + 2, "Title", shape.video))>>,
              pregap |-> Track(10 * m, 0, MediaRecording(10 * m, "Pregap", FALSE)),
              data_track_list |->
                  <<Track(10 * m + 3, 3,
                          MediaRecording(10 * m + 3,
                                         IF shape.data = "sentinel" THEN "[data track]"
                                         ELSE "Data", FALSE))>>],
             {"position", "format", "track_list"}
                 \cup (IF shape.pregap THEN {"pregap"} ELSE {})
                 \cup (IF shape.data # "none" THEN {"data_track_list"} ELSE {}))

ShapedRelease(shapes) ==
    [id |-> "release1", title |-> "Album",
     artist_credit |-> <<[artist |-> Artist("A")]>>,
     release_group |-> [id |-> "group1"],
     medium_list |-> [m \in DOMAIN shapes |-> ShapedMedium(m, shapes[m])]]

ShapeLists(max) == UNION {[1..n -> MediumShapes] : n \in 1..max}

MediaConfigs ==
    {[DefaultConfig EXCEPT !.ignore_data_tracks = d, !.ignore_video_tracks = v,
                           !.ignored_media = <<"DVD">>] : d \in BOOLEAN, v \in BOOLEAN}
        \cup {[DefaultConfig EXCEPT !.ignore_data_tracks = FALSE]}

InitMedia ==
    /\ release \in {ShapedRelease(shapes) : shapes \in ShapeLists(MaxMedia)}
    /\ service = [id \in {"release1"} |-> <<>>]
    /\ config \in MediaConfigs
    /\ info = Pending
    /\ browses = <<>>
    /\ again = Pending
    /\ IdlePure /\ IdleLookup /\ IdleArt

NextMedia ==
    \/ AlbumInfo
    \/ AlbumInfoAgain

SpecMedia == InitMedia /\ [][NextMedia]_vars

\* the medium of a release at a disc number
MediumAt(release_, number) ==
    LET media == release_.medium_list
    IN  media[CHOOSE m \in DOMAIN media : int(media[m].position).value = number]

\* the tracks a medium lists: its track list and, unless data tracks are ignored,
\* its data-track list; with_pregap, its pregap track too
ListedCount(medium, cfg, with_pregap) ==
    Len(medium.track_list)
        + (IF "data_track_list" \in DOMAIN medium /\ ~cfg.ignore_data_tracks
           THEN Len(medium.data_track_list) ELSE 0)
        + (IF with_pregap /\ "pregap" \in DOMAIN medium THEN 1 ELSE 0)

\* every track of the result carries the count of its medium in the release given
TotalsAre(result, given, cfg, with_pregap) ==
    /\ "value" \in DOMAIN result
    /\ \A i \in DOMAIN result.value.tracks :
           result.value.tracks[i].medium_total
               = ListedCount(MediumAt(given, result.value.tracks[i].medium), cfg, with_pregap)

\* C12 as stated: every track album_info emits for a medium carries as medium
\* total the number of tracks of the medium's track list, plus its data-track
\* list unless data tracks are ignored, plus its pregap track when it declares
\* one, skipped tracks included.
C12_MediumTotalCountsPregap ==
    [][(info = Pending /\ info' # Pending) => TotalsAre(info', release, config, TRUE)]_vars

\* C12: every track album_info emits for a medium carries as medium total the
\* number of tracks of the medium's track list, plus its data-track list unless
\* data tracks are ignored, as the release it is given holds them, skipped tracks
\* included; the pregap track is emitted but not counted.
C12_MediumTotalWithoutPregap ==
    [][/\ (info = Pending /\ info' # Pending) => TotalsAre(info', release, config, FALSE)
       /\ (again = Pending /\ again' # Pending) => TotalsAre(again', release, config, FALSE)
      ]_vars

\* album_info has emitted, for a medium of two tracks, a data track and a pregap
\* track, the pregap track and one more track only, each with the medium total 3
C12_Witness ==
    /\ info # Pending /\ "value" \in DOMAIN info
    /\ again = Pending
    /\ \E i \in DOMAIN info.value.tracks :
           /\ info.value.tracks[i].medium_index = 0
           /\ info.value.tracks[i].medium_total = 3
           /\ Cardinality({j \in DOMAIN info.value.tracks :
                              info.value.tracks[j].medium = info.value.tracks[i].medium}) = 2

\* C14: album_info on a release of at most 500 tracks leaves the release record
\* as it was given, no medium's track list being extended by its data tracks or
\* its pregap track, and a second album_info on the same record gives the same
\* sequence of tracks, with the same indexes and medium totals, as the first.
C14_AlbumInfoPure ==
    [][/\ (info = Pending /\ info' # Pending
               /\ SumTrackLists(release.medium_list) <= BROWSE_MAXTRACKS) =>
              release' = release
       /\ (again = Pending /\ again' # Pending
               /\ SumTrackLists(release.medium_list) <= BROWSE_MAXTRACKS) =>
              /\ release' = release
              /\ "value" \in DOMAIN info /\ "value" \in DOMAIN again'
              /\ again'.value.tracks = info.value.tracks
      ]_vars

(***************************************************************************)
(* album_info on releases with genre lists                                 *)
(***************************************************************************)
MaxGenres == 2

GenreNames == {"rock", "pop", "jazz"}

GenreCounts == {<<"1">>, <<"2">>, <<"5">>}

RECURSIVE GenreListsOf(_)
\* the genre lists of n tags, each name at most once
GenreListsOf(n) ==
    IF n = 0 THEN {<<>>}
    ELSE {Append(l, [name |-> g, count |-> c]) :
             l \in {x \in GenreListsOf(n - 1) : Len(x) = n - 1}, g \in GenreNames, c \in GenreCounts}

GenreLists(max) ==
    UNION {{l \in GenreListsOf(n) : \A i, j \in DOMAIN l : l[i].name = l[j].name => i = j} :
              n \in 0..max}

\* a release of one track whose release group carries the tags of group and
\* which carries the tags of own; an empty list is a list that is not there
GenreRelease(group, own) ==
    LET base == ServiceRelease(<<1>>, FALSE, FALSE, LAMBDA i : Recording(i, 2))
        tagged == IF own = <<>> THEN base ELSE setitem(base, "genre_list", own)
    IN  IF group = <<>> THEN tagged
        ELSE [tagged EXCEPT !.release_group = setitem(@, "genre_list", group)]

InitGenre ==
    /\ release \in {GenreRelease(group, own) :
                       group \in GenreLists(MaxGenres), own \in GenreLists(MaxGenres)}
    /\ service = [id \in {"release1"} |-> <<Recording(1, 2)>>]
    /\ config \in {[DefaultConfig EXCEPT !.genres = g] : g \in BOOLEAN}
    /\ info = Pending
    /\ browses = <<>>
    /\ again = Pending
    /\ IdlePure /\ IdleLookup /\ IdleArt

SpecGenre == InitGenre /\ [][AlbumInfo]_vars

\* the tags of the release group's genre list followed by the release's own
GenreItems(release_) ==
    getdefault(release_.release_group, "genre_list", <<>>) \o getdefault(release_, "genre_list", <<>>)

RECURSIVE GenreTotal(_, _)
\* the sum of the counts a name carries in a list of tags
GenreTotal(items, name) ==
    IF items = <<>> THEN 0
    ELSE (IF Head(items).name = name THEN int(Head(items).count).value ELSE 0)
         + GenreTotal(Tail(items), name)

\* C9: with genre lookup enabled, info.genre is the '; '-joined list of the
\* distinct tag names of the release group's and the release's genre lists, each
\* once, in descending order of their summed counts, equal totals in the order of
\* first occurrence; with genre lookup disabled no genre is set.
C9_GenreMerge ==
    (release # None /\ info # Pending) =>
        /\ "value" \in DOMAIN info
        /\ ~config.genres => "genre" \notin DOMAIN info.value
        /\ config.genres =>
               LET items == GenreItems(release)
                   First(name) == Min({i \in DOMAIN items : items[i].name = name})
                   names == {items[i].name : i \in DOMAIN items}
               IN  \E order \in [1..Cardinality(names) -> names] :
                       /\ \A i, j \in DOMAIN order : order[i] = order[j] => i = j
                       /\ \A i, j \in DOMAIN order :
                              i < j => \/ GenreTotal(items, order[i]) > GenreTotal(items, order[j])
                                       \/ /\ GenreTotal(items, order[i]) = GenreTotal(items, order[j])
                                          /\ First(order[i]) < First(order[j])
                       /\ info.value.genre = join("; ", order)

\* release-group tags {rock: 5, pop: 2} and release tags {pop: 1, jazz: 1} gave
\* 'rock; pop; jazz'
C9_Witness ==
    /\ release # None /\ info # Pending /\ config.genres
    /\ GenreItems(release) = <<[name |-> "rock", count |-> <<"5">>], [name |-> "pop", count |-> <<"2">>],
                               [name |-> "pop", count |-> <<"1">>], [name |-> "jazz", count |-> <<"1">>]>>
    /\ Len(release.genre_list) = 2
    /\ info.value.genre = "rock; pop; jazz"

(***************************************************************************)
(* Search and lookup by id                                                 *)
(*                                                                         *)
(* An identifier is a TLA+ string; SubSeq(s, i, i) is its i-th character.  *)
(* musicbrainz.search is what a search answers: [raise |-> class] or       *)
(* [list |-> results]; musicbrainz.byid[id] is what a lookup of id         *)
(* answers: "record" or the class of the exception it raises.              *)
(***************************************************************************)
\* the exception classes of musicbrainzngs; every one is a MusicBrainzError
WebServiceErrors == {"NetworkError", "ResponseError", "AuthenticationError"}

MusicBrainzErrors == WebServiceErrors \cup {"UsageError"}

FIELDS_TO_MB_KEYS ==
    [catalognum |-> "catno", country |-> "country", label |-> "label", media |-> "format",
     year |-> "date"]

\* the exception MusicBrainzAPIError(reason, verb, query), raised
MusicBrainzAPIError(reason, verb, query) ==
    [raise |-> "MusicBrainzAPIError", query |-> query, verb |-> verb,
     reason |-> IF reason \in WebServiceErrors THEN "MusicBrainz not reachable" ELSE reason]

HexDigits == {"a", "b", "c", "d", "e", "f", "0", "1", "2", "3", "4", "5", "6", "7", "8", "9"}

\* [a-f0-9]{n} matches s from position i
MatchesHex(s, i, n) ==
    /\ i + n - 1 <= Len(s)
    /\ \A k \in i..(i + n - 1) : SubSeq(s, k, k) \in HexDigits

\* -[a-f0-9]{n} matches s from position i
MatchesGroup(s, i, n) ==
    /\ i <= Len(s)
    /\ SubSeq(s, i, i) = "-"
    /\ MatchesHex(s, i + 1, n)

\* [a-f0-9]{8}(-[a-f0-9]{4}){3}-[a-f0-9]{12} matches s from position i
MatchesAt(s, i) ==
    /\ MatchesHex(s, i, 8)
    /\ \A g \in 0..2 : MatchesGroup(s, i + 8 + 5 * g, 4)
    /\ MatchesGroup(s, i + 23, 12)

\* re.search: the match that starts leftmost
_parse_id(s) ==
    LET starts == {i \in 1..Len(s) : MatchesAt(s, i)}
    IN  IF starts = {} THEN None ELSE Some(SubSeq(s, Min(starts), Min(starts) + 35))

\* the release the service holds under an id
ReleaseOf(id) ==
    [ServiceRelease(<<1>>, FALSE, FALSE, LAMBDA i : Recording(i, 0)) EXCEPT !.id = id]

\* the recording the service holds under an id
RecordingOf(id) == [Recording(1, 0) EXCEPT !.id = id]

get_release_by_id(mb, id) ==
    IF id \notin DOMAIN mb.byid THEN [raise |-> "ResponseError"]
    ELSE IF mb.byid[id] = "record" THEN [release |-> ReleaseOf(id)]
    ELSE [raise |-> mb.byid[id]]

get_recording_by_id(mb, id) ==
    IF id \notin DOMAIN mb.byid THEN [raise |-> "ResponseError"]
    ELSE IF mb.byid[id] = "record" THEN [recording |-> RecordingOf(id)]
    ELSE [raise |-> mb.byid[id]]

\* the end of a lookup by id that answered res to request: a ResponseError is
\* not found, any other MusicBrainzError is wrapped with verb and query, and a
\* record goes through the mapping that gives mapped
Fetched(res, request, verb, query, mapped) ==
    IF "raise" \in DOMAIN res /\ res.raise = "ResponseError"
    THEN [value |-> None, requests |-> request]
    ELSE IF "raise" \in DOMAIN res /\ res.raise \in MusicBrainzErrors
    THEN MusicBrainzAPIError(res.raise, verb, query) @@ [requests |-> request]
    ELSE IF "raise" \in DOMAIN mapped THEN [raise |-> mapped.raise, requests |-> request]
    ELSE [value |-> Some(mapped.value), requests |-> request]

\* album_for_id once the id is parsed, with query the query of its error
AlbumById(albumid, query, mb, cfg) ==
    IF albumid = None THEN [value |-> None, requests |-> <<>>]
    ELSE Fetched(get_release_by_id(mb, albumid[1]),
                 <<[call |-> "get_release_by_id", id |-> albumid[1]]>>,
                 "get release by ID", query,
                 album_info(get_release_by_id(mb, albumid[1]).release, None, cfg))

\* a variant that gives the caller's string as the query of the error
album_for_id_query_as_given(releaseid, mb, cfg) ==
    AlbumById(_parse_id(releaseid), releaseid, mb, cfg)

\* album_for_id: the value returned or the exception raised, and the calls issued
album_for_id(releaseid, mb, cfg) ==
    AlbumById(_parse_id(releaseid), _parse_id(releaseid)[1], mb, cfg)

\* track_for_id once the id is parsed
TrackById(trackid, mb, cfg) ==
    IF trackid = None THEN [value |-> None, requests |-> <<>>]
    ELSE Fetched(get_recording_by_id(mb, trackid[1]),
                 <<[call |-> "get_recording_by_id", id |-> trackid[1]]>>,
                 "get recording by ID", trackid[1],
                 track_info(get_recording_by_id(mb, trackid[1]).recording,
                            None, None, None, None, cfg))

track_for_id(releaseid, mb, cfg) == TrackById(_parse_id(releaseid), mb, cfg)

\* the characters of a TLA+ string
chars(s) == [i \in 1..Len(s) |-> SubSeq(s, i, i)]

\* str(value) of an extra tag's value, an int or a str
strvalue(value) == IF "int" \in DOMAIN value THEN str(value.int) ELSE value.str

RECURSIVE ExtraCriteria(_, _)
\* the loop over extra_tags.items()
ExtraCriteria(criteria, items) ==
    IF items = <<>> THEN [value |-> criteria]
    ELSE IF Head(items).tag \notin DOMAIN FIELDS_TO_MB_KEYS THEN [raise |-> "KeyError"]
    ELSE LET key == FIELDS_TO_MB_KEYS[Head(items).tag]
             stripped == strip(lower(strvalue(Head(items).value)))
             value == IF key = "catno" THEN remove(stripped, " ") ELSE stripped
         IN  ExtraCriteria(IF value # <<>> THEN setitem(criteria, key, value) ELSE criteria,
                           Tail(items))

\* the search criteria match_album builds
AlbumCriteria(artist, album, tracks, extra_tags) ==
    LET c0 == [release |-> strip(lower(album))]
        c1 == IF artist # None THEN setitem(c0, "artist", strip(lower(artist[1])))
              ELSE setitem(c0, "arid", chars(VARIOUS_ARTISTS_ID))
        c2 == IF tracks # None THEN setitem(c1, "tracks", str(tracks[1])) ELSE c1
    IN  IF extra_tags # None /\ extra_tags[1] # <<>> THEN ExtraCriteria(c2, extra_tags[1])
        ELSE [value |-> c2]

\* the search criteria match_track builds
TrackCriteria(artist, title) ==
    [artist |-> strip(lower(artist)), recording |-> strip(lower(title))]

\* all(criteria.values())
all(criteria) == \A k \in DOMAIN criteria : criteria[k] # <<>>

\* any(criteria.values())
any(criteria) == \E k \in DOMAIN criteria : criteria[k] # <<>>

\* one round of match_album's loop: albuminfo is what album_for_id gave for the
\* head of the results, rest what the loop does with the results after it
AfterFetch(albuminfo, release_list, rest) ==
    IF "raise" \in DOMAIN albuminfo
    THEN [pc |-> "raised", raise |-> Restrict(albuminfo, DOMAIN albuminfo \ {"requests"}),
          todo |-> release_list, requests |-> albuminfo.requests]
    ELSE IF albuminfo.value # None
    THEN [pc |-> "suspended", yield |-> albuminfo.value[1],
          todo |-> release_list, requests |-> albuminfo.requests]
    ELSE [rest EXCEPT !.requests = albuminfo.requests \o @]

\* a loop over the results that returns at the first result that is not found
ResumeAlbums_not_found_ends(release_list, mb, cfg) ==
    IF release_list = <<>> THEN [pc |-> "done", todo |-> <<>>, requests |-> <<>>]
    ELSE AfterFetch(album_for_id(Head(release_list).id, mb, cfg), Tail(release_list),
                    [pc |-> "done", todo |-> Tail(release_list), requests |-> <<>>])

RECURSIVE ResumeAlbums(_, _, _)
\* match_album's loop over res['release-list'] from where it stands up to its
\* next yield, its end or the exception that leaves it
ResumeAlbums(release_list, mb, cfg) ==
    IF release_list = <<>> THEN [pc |-> "done", todo |-> <<>>, requests |-> <<>>]
    ELSE AfterFetch(album_for_id(Head(release_list).id, mb, cfg), Tail(release_list),
                    ResumeAlbums(Tail(release_list), mb, cfg))

\* one round of match_track's loop
AfterTrack(r, recording_list) ==
    IF "raise" \in DOMAIN r
    THEN [pc |-> "raised", raise |-> [raise |-> r.raise],
          todo |-> recording_list, requests |-> <<>>]
    ELSE [pc |-> "suspended", yield |-> r.value,
          todo |-> recording_list, requests |-> <<>>]

\* match_track's loop over res['recording-list'] up to its next yield or its end
ResumeTracks(recording_list, cfg) ==
    IF recording_list = <<>> THEN [pc |-> "done", todo |-> <<>>, requests |-> <<>>]
    ELSE AfterTrack(track_info(Head(recording_list), None, None, None, None, cfg),
                    Tail(recording_list))

\* the generator goes on to where the loop r has left it
Resumed(r) ==
    /\ pc' = r.pc
    /\ todo' = r.todo
    /\ requests' = requests \o r.requests
    /\ yielded' = IF "yield" \in DOMAIN r THEN Append(yielded, r.yield) ELSE yielded
    /\ ret' = IF "raise" \in DOMAIN r THEN r.raise ELSE ret

\* the generator raises exc before it has searched or ends without searching
Left(state, result) ==
    /\ pc' = state
    /\ ret' = result
    /\ UNCHANGED <<requests, todo, yielded>>

AlbumForId ==
    /\ fn = "album_for_id" /\ pc = "call"
    /\ LET r == album_for_id(arg.id, musicbrainz, config)
       IN  /\ ret' = Restrict(r, DOMAIN r \ {"requests"})
           /\ requests' = requests \o r.requests
           /\ pc' = IF "raise" \in DOMAIN r THEN "raised" ELSE "done"
    /\ UNCHANGED <<config, fn, arg, musicbrainz, todo, yielded>>
    /\ UNCHANGED <<albumVars, artVars>>

TrackForId ==
    /\ fn = "track_for_id" /\ pc = "call"
    /\ LET r == track_for_id(arg.id, musicbrainz, config)
       IN  /\ ret' = Restrict(r, DOMAIN r \ {"requests"})
           /\ requests' = requests \o r.requests
           /\ pc' = IF "raise" \in DOMAIN r THEN "raised" ELSE "done"
    /\ UNCHANGED <<config, fn, arg, musicbrainz, todo, yielded>>
    /\ UNCHANGED <<albumVars, artVars>>

\* the first next() on match_album(artist, album, tracks, extra_tags)
MatchAlbumStart ==
    /\ fn = "match_album" /\ pc = "call"
    /\ LET criteria == AlbumCriteria(arg.artist, arg.album, arg.tracks, arg.extra_tags)
           search == [call |-> "search_releases", limit |-> config.searchlimit,
                      criteria |-> criteria.value]
           res == musicbrainz.search
       IN  IF "raise" \in DOMAIN criteria THEN Left("raised", [raise |-> criteria.raise])
           ELSE IF ~any(criteria.value) THEN Left("done", ret)
           ELSE IF "raise" \in DOMAIN res
           THEN /\ pc' = "raised"
                /\ ret' = MusicBrainzAPIError(res.raise, "release search", criteria.value)
                /\ requests' = Append(requests, search)
                /\ UNCHANGED <<todo, yielded>>
           ELSE LET r == ResumeAlbums(res.list, musicbrainz, config)
                IN  Resumed([r EXCEPT !.requests = <<search>> \o @])
    /\ UNCHANGED <<config, fn, arg, musicbrainz>>
    /\ UNCHANGED <<albumVars, artVars>>

\* a later next() on the generator of match_album
MatchAlbumResume ==
    /\ fn = "match_album" /\ pc = "suspended"
    /\ Resumed(ResumeAlbums(todo, musicbrainz, config))
    /\ UNCHANGED <<config, fn, arg, musicbrainz>>
    /\ UNCHANGED <<albumVars, artVars>>

\* the first next() on match_track(artist, title)
MatchTrackStart ==
    /\ fn = "match_track" /\ pc = "call"
    /\ LET criteria == TrackCriteria(arg.artist, arg.title)
           search == [call |-> "search_recordings", limit |-> config.searchlimit,
                      criteria |-> criteria]
           res == musicbrainz.search
       IN  IF ~any(criteria) THEN Left("done", ret)
           ELSE IF "raise" \in DOMAIN res
           THEN /\ pc' = "raised"
                /\ ret' = MusicBrainzAPIError(res.raise, "recording search", criteria)
                /\ requests' = Append(requests, search)
                /\ UNCHANGED <<todo, yielded>>
           ELSE LET r == ResumeTracks([i \in DOMAIN res.list |-> RecordingOf(res.list[i].id)],
                                      config)
                IN  Resumed([r EXCEPT !.requests = <<search>> \o @])
    /\ UNCHANGED <<config, fn, arg, musicbrainz>>
    /\ UNCHANGED <<albumVars, artVars>>

\* a later next() on the generator of match_track
MatchTrackResume ==
    /\ fn = "match_track" /\ pc = "suspended"
    /\ Resumed(ResumeTracks(todo, config))
    /\ UNCHANGED <<config, fn, arg, musicbrainz>>
    /\ UNCHANGED <<albumVars, artVars>>

(***************************************************************************)
(* Inputs of the searches and lookups                                      *)
(***************************************************************************)
MaxResults == 2

Ids ==
    <<"89ad4ac3-39f7-470e-963a-56509c546377", "0123abcd-4567-89ef-0123-456789abcdef",
      "ffffffff-0000-4000-8000-00000000000f">>

\* strings with an identifier in them, alone, in a URL, between other
\* hexadecimal digits, after a truncated one, before another one; and strings
\* with none
IdStrings ==
    {Ids[1],
     "https://musicbrainz.org/release/" \o Ids[1],
     "https://musicbrainz.org/recording/" \o Ids[2] \o "/cover-art",
     Ids[3] \o " " \o Ids[1],
     "00" \o Ids[2] \o "ff",
     SubSeq(Ids[1], 1, 30) \o " " \o Ids[3],
     "89AD4AC3-39F7-470E-963A-56509C546377",
     SubSeq(Ids[1], 1, 35),
     "89ad4ac3-39f7-470e-963a_56509c546377",
     "89ad4ac339f7470e963a56509c546377",
     "0123abcd-4567-89ef-0123-456789abcdeg",
     "not an id",
     ""}

\* what a lookup by id may answer
Answers == {"record", "ResponseError", "NetworkError", "UsageError"}

RECURSIVE ResultListsOf(_)
\* the search results of n entries, each with an id of its own
ResultListsOf(n) ==
    IF n = 0 THEN {<<>>}
    ELSE {Append(l, [id |-> id]) :
             l \in ResultListsOf(n - 1), id \in Range(Ids)}

ResultLists(max) ==
    UNION {{l \in ResultListsOf(n) : \A i, j \in DOMAIN l : l[i].id = l[j].id => i = j} :
              n \in 0..Min({max, Len(Ids)})}

SearchFailures == {[raise |-> "NetworkError"], [raise |-> "ResponseError"]}

\* a service that lists results and answers the lookup of each of them
Remotes(max) ==
    {[search |-> o, byid |-> <<>>] : o \in SearchFailures}
        \cup UNION {{[search |-> [list |-> l], byid |-> f] :
                        f \in [{l[i].id : i \in DOMAIN l} -> Answers]} : l \in ResultLists(max)}

ArtistArgs == {<<" ">>, <<"A", "B", " ">>}

TitleArgs == {<<" ", " ">>, <<" ", "S", "h">>}

ExtraTagArgs ==
    {None, Some(<<>>),
     Some(<<[tag |-> "catalognum", value |-> [str |-> <<" ", " ">>]],
            [tag |-> "country", value |-> [str |-> <<>>]]>>),
     Some(<<[tag |-> "catalognum", value |-> [str |-> <<"A", "B", " ", "1", "2">>]],
            [tag |-> "year", value |-> [int |-> 1999]]>>)}

AlbumArgs ==
    [artist : {None} \cup {Some(a) : a \in ArtistArgs}, album : TitleArgs,
     tracks : {None, Some(0)}, extra_tags : ExtraTagArgs]

TrackArgs == [artist : ArtistArgs, title : TitleArgs]

InitLookup ==
    /\ \/ /\ fn \in {"album_for_id", "track_for_id"}
          /\ arg \in {[id |-> s] : s \in IdStrings}
          /\ musicbrainz \in {[search |-> [list |-> <<>>], byid |-> f] :
                                 f \in [Range(Ids) -> Answers]}
       \/ /\ fn = "match_album"
          /\ arg \in AlbumArgs
          /\ musicbrainz \in Remotes(MaxResults)
       \/ /\ fn = "match_track"
          /\ arg \in TrackArgs
          /\ musicbrainz \in {[search |-> o, byid |-> <<>>] :
                                 o \in SearchFailures
                                     \cup {[list |-> l] : l \in ResultLists(MaxResults)}}
    /\ config = DefaultConfig
    /\ ret = Pending
    /\ requests = <<>> /\ pc = "call" /\ todo = <<>> /\ yielded = <<>>
    /\ IdleAlbum /\ IdleArt

NextLookup ==
    \/ AlbumForId
    \/ TrackForId
    \/ MatchAlbumStart
    \/ MatchAlbumResume
    \/ MatchTrackStart
    \/ MatchTrackResume

SpecLookup == InitLookup /\ [][NextLookup]_vars

\* the 36 characters of s from position i are 8, 4, 4, 4 and 12 lower-case
\* hexadecimal digits with a dash between the groups
UUIDShapedAt(s, i) ==
    /\ i + 35 <= Len(s)
    /\ \A k \in 0..35 :
           IF k \in {8, 13, 18, 23} THEN SubSeq(s, i + k, i + k) = "-"
           ELSE \E d \in DOMAIN chars("0123456789abcdef") :
                    SubSeq(s, i + k, i + k) = chars("0123456789abcdef")[d]

\* C1: album_for_id and track_for_id, on a string with no UUID-shaped substring,
\* return None, issue no lookup and raise nothing; on a string with one they
\* look up the first and nothing else, return None when the service answers with
\* a response error, and raise a MusicBrainzAPIError whose query is the
\* extracted identifier when the lookup fails in another way. Nothing is raised
\* but for such a failure.
C1_NotFoundIsNotAnError ==
    (fn \in {"album_for_id", "track_for_id"} /\ pc # "call") =>
        LET s == arg.id
            starts == {i \in 1..Len(s) : UUIDShapedAt(s, i)}
            lookup == IF fn = "album_for_id" THEN "get_release_by_id" ELSE "get_recording_by_id"
        IN  IF starts = {} THEN ret = [value |-> None] /\ requests = <<>>
            ELSE LET id == SubSeq(s, Min(starts), Min(starts) + 35)
                     answer == musicbrainz.byid[id]
                 IN  /\ requests = <<[call |-> lookup, id |-> id]>>
                     /\ answer = "ResponseError" => ret = [value |-> None]
                     /\ answer = "record" => "value" \in DOMAIN ret /\ ret.value # None
                     /\ answer \notin {"record", "ResponseError"} =>
                            /\ "raise" \in DOMAIN ret
                            /\ ret.raise = "MusicBrainzAPIError"
                            /\ ret.query = id
                     /\ "raise" \in DOMAIN ret => answer \notin {"record", "ResponseError"}

\* the lookup of an identifier given inside a URL failed on the network
C1_Witness ==
    /\ fn = "album_for_id" /\ pc = "raised"
    /\ arg.id = "https://musicbrainz.org/release/" \o Ids[1]
    /\ musicbrainz.byid[Ids[1]] = "NetworkError"
    /\ ret.query = Ids[1]
    /\ requests = <<[call |-> "get_release_by_id", id |-> Ids[1]]>>

\* the lookups by id among the calls issued
Fetches == SelectSeq(requests, LAMBDA q : q.call = "get_release_by_id")

\* C2: match_album, once its release search has returned results r1..rn, looks
\* the results up one by one in the order of the search, each once; what it has
\* yielded is the AlbumInfo of each result looked up so far whose lookup
\* returned a record, in that order; it ends only when every result has been
\* looked up, and a result that is not found neither ends the sequence nor
\* raises: it stands suspended only on a record and leaves by an exception only
\* on a lookup that failed otherwise.
C2_FetchEachResultInOrder ==
    (fn = "match_album" /\ pc # "call" /\ "list" \in DOMAIN musicbrainz.search
        /\ requests # <<>>) =>
        LET results == musicbrainz.search.list
            k == Len(Fetches)
        IN  /\ k <= Len(results)
            /\ Len(requests) = k + 1
            /\ \A i \in 1..k : Fetches[i].id = results[i].id
            /\ k <= Len(results) =>
                   LET found == SelectSeq(SubSeq(results, 1, k),
                                          LAMBDA r : musicbrainz.byid[r.id] = "record")
                   IN  /\ Len(yielded) = Len(found)
                       /\ \A i \in DOMAIN found :
                              yielded[i] = album_info(ReleaseOf(found[i].id), None, config).value
            /\ pc = "done" => k = Len(results)
            /\ pc = "suspended" => k >= 1 /\ musicbrainz.byid[results[k].id] = "record"
            /\ pc = "raised" =>
                   k >= 1 /\ musicbrainz.byid[results[k].id] \notin {"record", "ResponseError"}

\* of two results the first was not found and the second was yielded
C2_Witness ==
    /\ fn = "match_album" /\ pc = "done"
    /\ "list" \in DOMAIN musicbrainz.search
    /\ Len(musicbrainz.search.list) = 2
    /\ musicbrainz.byid[musicbrainz.search.list[1].id] = "ResponseError"
    /\ musicbrainz.byid[musicbrainz.search.list[2].id] = "record"
    /\ Len(Fetches) = 2
    /\ Len(yielded) = 1
    /\ yielded[1].album_id = musicbrainz.search.list[2].id

\* a str of nothing but whitespace
Blank(s) == \A i \in DOMAIN s : s[i] = " "

\* every criterion of the call is empty: the title and the artist name are
\* blank, the artist is specified, there is no track count and every extra tag
\* is blank
NoCriterion ==
    IF fn = "match_album"
    THEN /\ Blank(arg.album)
         /\ arg.artist # None /\ Blank(arg.artist[1])
         /\ arg.tracks = None
         /\ arg.extra_tags # None =>
                \A i \in DOMAIN arg.extra_tags[1] :
                    /\ "str" \in DOMAIN arg.extra_tags[1][i].value
                    /\ Blank(arg.extra_tags[1][i].value.str)
    ELSE Blank(arg.artist) /\ Blank(arg.title)

\* C3: match_album and match_track, when every criterion is empty, yield nothing
\* and issue no call; when one is not, they issue exactly one search call, ahead
\* of every other call.
C3_SearchOnlyWithCriteria ==
    (fn \in {"match_album", "match_track"} /\ pc # "call") =>
        LET searches == SelectSeq(requests,
                                  LAMBDA q : q.call \in {"search_releases", "search_recordings"})
        IN  IF NoCriterion
            THEN requests = <<>> /\ yielded = <<>> /\ pc = "done" /\ ret = Pending
            ELSE /\ Len(searches) = 1
                 /\ requests[1] = searches[1]
                 /\ searches[1].call = (IF fn = "match_album" THEN "search_releases"
                                        ELSE "search_recordings")

\* match_album ended without a call on blank names and blank extra tags
C3_Witness ==
    /\ fn = "match_album" /\ pc = "done"
    /\ NoCriterion
    /\ arg.extra_tags # None /\ arg.extra_tags[1] # <<>>
    /\ requests = <<>>
    /\ yielded = <<>>

(***************************************************************************)
(* The cover-art plugin (beetsplug/embedart.py)                            *)
(*                                                                         *)
(* The bytes of a file are a sequence of numbers below 256. An item is     *)
(* known by the path of its file.                                          *)
(***************************************************************************)
\* h[lo:hi]
Slice(h, lo, hi) == SubSeq(h, lo + 1, Min({hi, Len(h)}))

\* imghdr.what(None, h): the first test that recognises h, None when none does
what(h) ==
    IF Slice(h, 6, 10) \in {<<74, 70, 73, 70>>, <<69, 120, 105, 102>>} THEN Some("jpeg")
    ELSE IF Slice(h, 0, 8) = <<137, 80, 78, 71, 13, 10, 26, 10>> THEN Some("png")
    ELSE IF Slice(h, 0, 6) \in {<<71, 73, 70, 56, 55, 97>>, <<71, 73, 70, 56, 57, 97>>}
    THEN Some("gif")
    ELSE IF Slice(h, 0, 2) \in {<<77, 77>>, <<73, 73>>} THEN Some("tiff")
    ELSE IF Slice(h, 0, 2) = <<66, 77>> THEN Some("bmp")
    ELSE None

\* '%s' % kindstr
kindname(kindstr) == IF kindstr = None THEN "None" ELSE kindstr[1]

\* the loop of _embed over items: f.art = (data, kind) and f.save() for each
EmbedLoop(items, data, kind, tg) ==
    [tags |-> [p \in DOMAIN tg |-> IF InSeq(p, items) THEN <<data, kind>> ELSE tg[p]],
     saves |-> items,
     log |-> <<[level |-> "debug", msg |-> "Embedding album art."]>>]

\* a variant that takes a file of any type for a PNG image
_embed_any_type(path, items, fs, tg) ==
    IF path \notin DOMAIN fs
    THEN [raise |-> "IOError", tags |-> tg, saves |-> <<>>, log |-> <<>>]
    ELSE EmbedLoop(items, fs[path], IF what(fs[path]) = Some("jpeg") THEN "JPEG" ELSE "PNG", tg)

\* _embed(path, items) on the files fs and the embedded art tg: the art and the
\* saves after it, and what it logged
_embed(path, items, fs, tg) ==
    IF path \notin DOMAIN fs
    THEN [raise |-> "IOError", tags |-> tg, saves |-> <<>>, log |-> <<>>]
    ELSE LET data == fs[path]
             kindstr == what(data)
         IN  IF kindstr = Some("jpeg") THEN EmbedLoop(items, data, "JPEG", tg)
             ELSE IF kindstr = Some("png") THEN EmbedLoop(items, data, "PNG", tg)
             ELSE [tags |-> tg, saves |-> <<>>,
                   log |-> <<[level |-> "error",
                              msg |-> "A file of type " \o kindname(kindstr)
                                          \o " is not allowed as coverart."]>>]

\* lib.albums(query): the albums a query matches; the empty query matches all
albums(library, query) ==
    SelectSeq(library.albums, LAMBDA a : query = <<>> \/ InSeq(a.album, query))

RECURSIVE AllItems(_)
AllItems(album_list) ==
    IF album_list = <<>> THEN <<>> ELSE Head(album_list).items \o AllItems(Tail(album_list))

\* lib.items(query): the items a query matches
items(library, query) ==
    SelectSeq(AllItems(library.albums), LAMBDA p : query = <<>> \/ InSeq(p, query))

MaxCommands == 2

PNG == <<137, 80, 78, 71, 13, 10, 26, 10, 0, 0, 0, 13>>

JPEG == <<255, 216, 255, 224, 0, 16, 74, 70, 73, 70, 0>>

GIF == <<71, 73, 70, 56, 57, 97, 1, 0>>

ItemPaths == <<"song1.mp3", "song2.mp3">>

InitialFiles ==
    [p \in {"art.png", "art.jpg", "art.gif", "art.txt"} |->
        CASE p = "art.png" -> PNG
          [] p = "art.jpg" -> JPEG
          [] p = "art.gif" -> GIF
          [] OTHER -> <<104, 105>>]

Queries == {<<>>, <<"album1">>, <<"song2.mp3">>, <<"nothing">>}

\* the lists of items an album may hold
ItemLists == {<<>>, <<ItemPaths[1]>>, <<ItemPaths[2]>>, ItemPaths, <<ItemPaths[2], ItemPaths[1]>>}

InitArt ==
    /\ files = InitialFiles
    /\ tags \in [Range(ItemPaths) -> {None, <<JPEG, "JPEG">>}]
    /\ lib \in {[albums |-> <<[album |-> "album1", albumartist |-> "A", artpath |-> a,
                               items |-> ItemPaths]>>] :
                   a \in {None, Some("art.png"), Some("art.gif")}}
    /\ options \in {[autoembed |-> b] : b \in BOOLEAN}
    /\ saves = <<>> /\ log = <<>> /\ cmd = None /\ steps = 0
    /\ config = DefaultConfig
    /\ IdlePure /\ IdleAlbum /\ IdleLookup

\* what _embed(path, items) does to the files of the items and to the log
Written(r) ==
    /\ tags' = r.tags
    /\ saves' = saves \o r.saves
    /\ log' = log \o r.log

\* _embed(path, items), called on its own
Apply_embed ==
    /\ steps < MaxCommands
    /\ \E path \in DOMAIN files \cup {"missing.png"}, targets \in ItemLists :
           LET r == _embed(path, targets, files, tags)
           IN  /\ Written(r)
               /\ cmd' = Some([fn |-> "_embed", path |-> path, items |-> targets,
                               raised |-> "raise" \in DOMAIN r])
    /\ steps' = steps + 1
    /\ UNCHANGED <<files, lib, options, config>>
    /\ UNCHANGED <<pureVars, albumVars, lookupVars>>

\* embed(lib, imagepath, query), the embedart command
Embed ==
    /\ steps < MaxCommands
    /\ \E imagepath \in DOMAIN files, query \in Queries :
           LET matched == albums(lib, query)
           IN  /\ IF matched = <<>>
                  THEN /\ log' = Append(log, [level |-> "error", msg |-> "No album matches query."])
                       /\ UNCHANGED <<tags, saves>>
                  ELSE LET album == Head(matched)
                           r == _embed(imagepath, album.items, files, tags)
                       IN  Written([r EXCEPT !.log =
                               <<[level |-> "info",
                                  msg |-> "Embedding album art into " \o album.albumartist
                                              \o " - " \o album.album \o "."]>> \o @])
               /\ cmd' = Some([fn |-> "embed", imagepath |-> imagepath, query |-> query])
    /\ steps' = steps + 1
    /\ UNCHANGED <<files, lib, options, config>>
    /\ UNCHANGED <<pureVars, albumVars, lookupVars>>

\* a variant that names every extracted file as a PNG image
WithExtension_always_png(outpath, kind) == outpath \o ".png"

\* outpath += '.jpg' for JPEG art, outpath += '.png' for any other
WithExtension(outpath, kind) == outpath \o (IF kind = "JPEG" THEN ".jpg" ELSE ".png")

\* extract(lib, outpath, query), the extractart command
Extract ==
    /\ steps < MaxCommands
    /\ \E outpath \in {"cover", "art"}, query \in Queries :
           LET matched == items(lib, query)
           IN  /\ IF matched = <<>>
                  THEN /\ log' = Append(log, [level |-> "error", msg |-> "No item matches query."])
                       /\ UNCHANGED files
                  ELSE LET item == Head(matched)
                           art == tags[item]
                       IN  IF art = None
                           THEN /\ log' = Append(log, [level |-> "error",
                                                       msg |-> "No album art present in "
                                                                   \o item \o "."])
                                /\ UNCHANGED files
                           ELSE LET data == art[1]
                                    kind == art[2]
                                    out == WithExtension(outpath, kind)
                                IN  /\ log' = Append(log, [level |-> "info",
                                                           msg |-> "Extracting album art from: "
                                                                       \o item \o " To: " \o out])
                                    /\ files' = setitem(files, out, data)
               /\ cmd' = Some([fn |-> "extract", outpath |-> outpath, query |-> query])
    /\ steps' = steps + 1
    /\ UNCHANGED <<tags, saves, lib, options, config>>
    /\ UNCHANGED <<pureVars, albumVars, lookupVars>>

\* album_imported(lib, album), the listener of the album_imported event
AlbumImported ==
    /\ steps < MaxCommands
    /\ \E a \in DOMAIN lib.albums :
           LET album == lib.albums[a]
           IN  /\ IF album.artpath # None /\ options.autoembed
                  THEN Written(_embed(album.artpath[1], album.items, files, tags))
                  ELSE UNCHANGED <<tags, saves, log>>
               /\ cmd' = Some([fn |-> "album_imported", album |-> album.album])
    /\ steps' = steps + 1
    /\ UNCHANGED <<files, lib, options, config>>
    /\ UNCHANGED <<pureVars, albumVars, lookupVars>>

NextArt ==
    \/ Apply_embed
    \/ Embed
    \/ Extract
    \/ AlbumImported

SpecArt == InitArt /\ [][NextArt]_vars

\* C10: _embed on an image file and a list of items, when the sniffed type of the
\* image is neither JPEG nor PNG, logs an error and leaves the embedded art of
\* every item as it was and saves no file; when it is JPEG or PNG, it sets the
\* embedded art of every item of the list to the bytes of the image and saves
\* each of them.
C10_UnsupportedTypeNoWrite ==
    [][(steps' = steps + 1 /\ cmd'[1].fn = "_embed" /\ cmd'[1].path \in DOMAIN files) =>
          LET data == files[cmd'[1].path]
              targets == cmd'[1].items
          IN  IF what(data) \notin {Some("jpeg"), Some("png")}
              THEN /\ tags' = tags
                   /\ saves' = saves
                   /\ Len(log') = Len(log) + 1
                   /\ log'[Len(log')].level = "error"
              ELSE /\ \A i \in DOMAIN targets :
                          /\ tags'[targets[i]][1] = data
                          /\ tags'[targets[i]][2] = (IF what(data) = Some("jpeg") THEN "JPEG"
                                                     ELSE "PNG")
                   /\ \A p \in DOMAIN tags : ~InSeq(p, targets) => tags'[p] = tags[p]
                   /\ saves' = saves \o targets
                   /\ \A i \in (Len(log) + 1)..Len(log') : log'[i].level # "error"]_vars

\* _embed has been given a GIF file and two items that carried art: an error is
\* logged, nothing is saved and the items carry the art they had
C10_Witness ==
    /\ cmd # None /\ cmd[1].fn = "_embed"
    /\ steps = 1
    /\ cmd[1].path = "art.gif"
    /\ cmd[1].items = ItemPaths
    /\ saves = <<>>
    /\ \A p \in Range(ItemPaths) : tags[p] = <<JPEG, "JPEG">>
    /\ Len(log) = 1 /\ log[1].level = "error"

\* C11: embedding and then extracting is a round trip. When _embed or the embedart
\* command has just embedded a PNG (JPEG) image into an item and extract then takes
\* that item with the output stem S, the file S + '.png' (S + '.jpg') holds the
\* bytes of the source image and no other file changes; extract on an item that
\* carries no art changes no file.
C11_EmbedExtractRoundTrip ==
    [][(steps' = steps + 1 /\ cmd'[1].fn = "extract"
            /\ items(lib, cmd'[1].query) # <<>>) =>
          LET item == Head(items(lib, cmd'[1].query))
              stem == cmd'[1].outpath
              embedded == /\ cmd # None
                          /\ \/ /\ cmd[1].fn = "_embed"
                                /\ cmd[1].path \in DOMAIN files
                                /\ InSeq(item, cmd[1].items)
                             \/ /\ cmd[1].fn = "embed"
                                /\ albums(lib, cmd[1].query) # <<>>
                                /\ InSeq(item, Head(albums(lib, cmd[1].query)).items)
              source == files[IF cmd[1].fn = "_embed" THEN cmd[1].path ELSE cmd[1].imagepath]
          IN  /\ (embedded /\ what(source) = Some("png")) =>
                     /\ DOMAIN files' = DOMAIN files \cup {stem \o ".png"}
                     /\ files'[stem \o ".png"] = source
                     /\ \A p \in DOMAIN files : p # stem \o ".png" => files'[p] = files[p]
              /\ (embedded /\ what(source) = Some("jpeg")) =>
                     /\ DOMAIN files' = DOMAIN files \cup {stem \o ".jpg"}
                     /\ files'[stem \o ".jpg"] = source
                     /\ \A p \in DOMAIN files : p # stem \o ".jpg" => files'[p] = files[p]
              /\ tags[item] = None => files' = files]_vars

\* the PNG image has been embedded into an item that carried no art, and extract
\* with the stem 'cover' has written its bytes to cover.png
C11_Witness ==
    /\ steps = 2
    /\ cmd # None /\ cmd[1].fn = "extract" /\ cmd[1].outpath = "cover"
    /\ items(lib, cmd[1].query) # <<>>
    /\ tags[Head(items(lib, cmd[1].query))] = <<PNG, "PNG">>
    /\ "cover.png" \in DOMAIN files /\ files["cover.png"] = PNG
    /\ files["art.png"] = PNG

=============================================================================
